---- MODULE Spec2Model ----
(***************************************************************************)
(* A model of boom2's MCP client (src/src/mcp/mcpClient.ts): the stdio     *)
(* request correlator (sendStdioRequest, the stdout 'data' handler, the    *)
(* 'exit' handler and the 30 s timers) and the method negotiation built on *)
(* it; of the extractor of tool calls and the choice of the API in the     *)
(* Ollama adapter (src/src/llm/ollamaAdapter.ts); of the start of the      *)
(* servers (src/src/mcp/servers.ts); and of the agent that collects the    *)
(* tools and routes the tool calls (src/src/agent/agentController.ts).     *)
(***************************************************************************)
EXTENDS Integers, Sequences, FiniteSets, TLC

(* ------------------------------ bounds -------------------------------- *)

\* sendStdioRequest calls that register a request, per run
MaxReq == 2
\* the values Date.now() returns are 0..MaxClock: requests made within the
\* same millisecond get the same reading
MaxClock == 0
\* lines the server may have written and not yet delivered
MaxBufLines == 2

\* negotiation calls (tryDifferentMethods, tryDifferentToolCallMethods) per run
MaxCalls == 2

\* objects nested in the arguments of a tool call the model writes
MaxDepth == 4
\* fenced blocks in an answer with several blocks
MaxBlocks == 3

\* health checks waitForServerReady makes before it gives up (maxRetries)
MaxProbes == 2

(* ------------------------------- state -------------------------------- *)

VARIABLES
  messageId,        \* McpClient.messageId
  requests,         \* the promises sendStdioRequest created, in order: id and method
  pendingRequests,  \* McpClient.pendingRequests, a Map in insertion order
  settleCalls,      \* per request: the resolve/reject calls made on its promise
  timersFired,      \* number of the 30 s timers that have fired (they fire in order)
  processExited,    \* the child process has emitted 'exit'
  stdinWritable,    \* process.stdin.writable
  stdoutBuf,        \* text the server wrote to stdout, not yet delivered to 'data'
  lastOp,           \* the handler that ran last and what it decided
  neg,              \* the running call of tryDifferentMethods / tryDifferentToolCallMethods
  httpOnly,         \* the client is the HTTP-only McpClient, which has no transport field
  transport,        \* McpClient.transport
  toolsLoaded,      \* McpClient.toolsLoaded
  availableTools,   \* McpClient.availableTools: the names of the tools
  clientOp,         \* the running call of loadTools / getTools / callTool
  answer,           \* the text of the model's answer, handed to parseToolCallsFromResponse
  response,         \* what parseToolCallsFromResponse returned for it
  servers,          \* McpRegistry.servers: the names that have a connection
  serverConfigs,    \* McpRegistry.serverConfigs: the names that have a configuration
  startPc,          \* per server: where its startServer call stands
  exited,           \* per server: its process has emitted 'exit'
  retryCount,       \* per server: retryCount of waitForServerReady
  loadCalls,        \* per caller: where its loadTools call on the one client stands
  useChat,          \* OllamaAdapter.useChat
  llmCall,          \* the running call of callModelWithTools / callModelWithToolResults
  apiLog,           \* the requests made to the Ollama API, with their outcomes
  clients,          \* per registered server: toolsLoaded and availableTools of its client
  agent,            \* the running processUserInput call of the AgentController
  trace             \* what the running call did: getTools, LLM and callTool calls

clientVars == <<httpOnly, transport, toolsLoaded, availableTools, clientOp>>

extractVars == <<answer, response>>

startVars == <<servers, serverConfigs, startPc, exited, retryCount>>

overlapVars == <<loadCalls>>

chatVars == <<useChat, llmCall, apiLog>>

agentVars == <<clients, agent, trace>>

outerVars == <<overlapVars, chatVars, agentVars>>

vars == <<messageId, requests, pendingRequests, settleCalls, timersFired,
          processExited, stdinWritable, stdoutBuf, lastOp, neg, clientVars,
          extractVars, startVars, outerVars>>

(* --------------------------- the Map (ES2015) ------------------------- *)

\* Map.prototype.has
MapHas(map, id) == \E i \in DOMAIN map : map[i].id = id

\* mutant: the response is matched by arrival order, the oldest entry is taken
MapGetOldest(map, id) == map[1]

\* Map.prototype.get of a key the map has
MapGet(map, id) == map[CHOOSE i \in DOMAIN map : map[i].id = id]

\* Map.prototype.set: a new key is appended, a known key keeps its place
MapSet(map, id, req) ==
  IF MapHas(map, id)
    THEN [i \in DOMAIN map |-> IF map[i].id = id THEN [id |-> id, req |-> req] ELSE map[i]]
    ELSE Append(map, [id |-> id, req |-> req])

\* Map.prototype.delete
MapDelete(map, id) == SelectSeq(map, LAMBDA e : e.id # id)

(* ------------------------- text on the pipe --------------------------- *)

\* the values the model gives the `error` field of a message: no field, null,
\* {"message": ""} and {"message": "E1"}
ErrorFields ==
  { [kind |-> "absent", message |-> "undefined"],
    [kind |-> "null",   message |-> "undefined"],
    [kind |-> "object", message |-> ""],
    [kind |-> "object", message |-> "E1"] }

NoError == [kind |-> "absent", message |-> "undefined"]

\* a JSON object without id, error and result (a notification)
Notification == [id |-> <<>>, error |-> NoError, result |-> "undefined"]

\* The JSON-RPC responses a server may write for the id of a request
ResponsesFor(id) ==
  { [id |-> id, error |-> e, result |-> IF e.kind = "null" THEN "R2" ELSE "R1"] :
      e \in {x \in ErrorFields : x.kind # "object"} }
  \cup { [id |-> id, error |-> e, result |-> "undefined"] :
      e \in {x \in ErrorFields : x.kind = "object"} }

\* Text is a sequence of tokens. The JSON text of an object is two tokens, so
\* that a delivery can end inside it; NL is the newline.
NL == [t |-> "NL", m |-> Notification]
DiagText == << [t |-> "diag", m |-> Notification] >>
NullText == << [t |-> "null", m |-> Notification] >>

\* JSON.stringify of a message object
JSONStringify(m) == << [t |-> "H", m |-> m], [t |-> "T", m |-> m] >>

\* String.prototype.trim: leading and trailing white space removed
RECURSIVE TrimStart(_)
TrimStart(text) ==
  IF text # <<>> /\ Head(text) = NL THEN TrimStart(Tail(text)) ELSE text

RECURSIVE TrimEnd(_)
TrimEnd(text) ==
  IF text # <<>> /\ text[Len(text)] = NL
    THEN TrimEnd(SubSeq(text, 1, Len(text) - 1))
    ELSE text

Trim(text) == TrimEnd(TrimStart(text))

\* mutant: a lenient parser that reads the first value and ignores what follows
JSONParseFirstValue(text) ==
  IF Len(text) >= 2 /\ text[1].t = "H" /\ text[2].t = "T" /\ text[1].m = text[2].m
    THEN [ok |-> TRUE, isNull |-> FALSE, value |-> text[1].m]
  ELSE IF text # <<>> /\ <<text[1]>> = NullText
    THEN [ok |-> TRUE, isNull |-> TRUE, value |-> Notification]
  ELSE [ok |-> FALSE, isNull |-> FALSE, value |-> Notification]

\* JSON.parse: the text must be exactly one JSON value
JSONParse(text) ==
  IF Len(text) = 2 /\ text[1].t = "H" /\ text[2].t = "T" /\ text[1].m = text[2].m
    THEN [ok |-> TRUE, isNull |-> FALSE, value |-> text[1].m]
  ELSE IF text = NullText
    THEN [ok |-> TRUE, isNull |-> TRUE, value |-> Notification]
  ELSE [ok |-> FALSE, isNull |-> FALSE, value |-> Notification]

(* ------------------------- promises and errors ------------------------ *)

Resolve(value) == [kind |-> "resolve", type |-> "none", arg |-> value]
Reject(type, arg) == [kind |-> "reject", type |-> type, arg |-> arg]

\* new Error(message.error.message || 'Unknown error')
ResponseError(error) ==
  Reject("response",
         IF error.message \in {"undefined", ""} THEN "Unknown error" ELSE error.message)

\* new Error(`Request timeout: ${method}`)
TimeoutError(method) == Reject("timeout", method)

\* new Error(`Server process exited with code ${code}`)
ExitError(code) == Reject("exit", code)

\* a call of the resolve or reject function of request k's promise
Settle(calls, k, call) == [calls EXCEPT ![k] = Append(@, call)]

\* the state of the promise: the first call settles it, later calls do nothing
Outcome(k) == IF settleCalls[k] = <<>> THEN Resolve("pending") ELSE settleCalls[k][1]

\* what a handler read of a message: its id alone
Seen(id) == [id |-> id, error |-> NoError, result |-> "undefined"]

\* the handler that ran last: the message (or the id) it handled and what it did
Op(op, msg, outcome) == [op |-> op, msg |-> msg, outcome |-> outcome]

(* ------------------------------ the client ---------------------------- *)

\* `${Date.now()}-${this.messageId}`
MakeId(t, n) == <<t, n>>

\* mutant: the counter is not advanced
NextMessageIdSame(n) == n

\* this.messageId += 1
NextMessageId(n) == n + 1

\* mutant: only the presence of the process is checked
UnavailableNoProcess == FALSE

\* mutant: only the exit of the process is looked at, not the stream
UnavailableExitedOnly == processExited

\* if (!this.process || !this.process.stdin?.writable) throw
Unavailable == ~stdinWritable

\* the values Date.now() can return: the wall clock does not run backwards
ClockReadings ==
  { t \in 0..MaxClock : requests # <<>> => t >= requests[Len(requests)].id[1] }

\* sendStdioRequest(method, params) with Date.now() = t: the request is
\* registered, written and its timer armed, or the call throws
SendStdioRequest(method, t) ==
  IF Unavailable
    THEN /\ lastOp' = Op("send", Notification, "threw")
         /\ UNCHANGED <<messageId, requests, pendingRequests, settleCalls,
                        timersFired, processExited, stdinWritable, stdoutBuf>>
    ELSE /\ Len(requests) < MaxReq
         /\ LET id == MakeId(t, messageId)
                k  == Len(requests) + 1
            IN /\ messageId' = NextMessageId(messageId)
               /\ requests' = Append(requests, [id |-> id, method |-> method])
               /\ settleCalls' = Append(settleCalls, <<>>)
               /\ pendingRequests' = MapSet(pendingRequests, id, k)
               /\ lastOp' = Op("send", Seen(id), "registered")
         /\ UNCHANGED <<timersFired, processExited, stdinWritable, stdoutBuf>>

\* message.id && this.pendingRequests.has(message.id)
Matches(map, message) == message.id # <<>> /\ MapHas(map, message.id)

\* mutant: the presence of the field decides, if ('error' in message)
TruthyIfPresent(error) == error.kind # "absent"

\* if (message.error)
Truthy(error) == error.kind = "object"

\* the call the stdout handler makes on the promise of a matched message
ResponseCall(message) ==
  IF Truthy(message.error) THEN ResponseError(message.error) ELSE Resolve(message.result)

\* the entries left after a matched message was handled
AfterResponse(map, message) == MapDelete(map, message.id)

\* process.stdout.on('data', ...): one delivery of stdout text
OnStdoutData(chunk) ==
  LET messageText == Trim(chunk)
      parsed == JSONParse(messageText)
      message == parsed.value
  IN IF messageText = <<>>
       THEN /\ lastOp' = Op("data", Notification, "empty")
            /\ UNCHANGED <<pendingRequests, settleCalls>>
     ELSE IF ~parsed.ok \/ parsed.isNull
       \* JSON.parse throws, or message.id throws a TypeError: both are caught
       THEN /\ lastOp' = Op("data", Notification, "caught")
            /\ UNCHANGED <<pendingRequests, settleCalls>>
     ELSE IF ~Matches(pendingRequests, message)
       THEN /\ lastOp' = Op("data", Seen(message.id), "noMatch")
            /\ UNCHANGED <<pendingRequests, settleCalls>>
     ELSE LET k == MapGet(pendingRequests, message.id).req
          IN /\ settleCalls' = Settle(settleCalls, k, ResponseCall(message))
             /\ pendingRequests' = AfterResponse(pendingRequests, message)
             /\ lastOp' = Op("data", message, "settled")

\* the delivery of the first n tokens of the buffered stdout text
Deliver(n) ==
  /\ n \in 1..Len(stdoutBuf)
  /\ OnStdoutData(SubSeq(stdoutBuf, 1, n))
  /\ stdoutBuf' = SubSeq(stdoutBuf, n + 1, Len(stdoutBuf))
  /\ UNCHANGED <<messageId, requests, timersFired, processExited, stdinWritable>>

\* mutant: the timer callback rejects without looking at the map
TimerFindsAlways(map, id) == TRUE

\* mutant: the timer callback never finds the entry, so it never rejects
TimerFindsNever(map, id) == FALSE

\* if (this.pendingRequests.has(id))
TimerFinds(map, id) == MapHas(map, id)

\* mutant: the timer callback rejects and leaves the entry in the map
AfterTimeoutKept(map, id) == map

\* this.pendingRequests.delete(id) in the timer callback
AfterTimeout(map, id) == MapDelete(map, id)

\* the setTimeout callback of request k; equal delays fire in the order armed
OnTimeout ==
  /\ timersFired < Len(requests)
  /\ LET k == timersFired + 1
         id == requests[k].id
     IN /\ timersFired' = k
        /\ IF TimerFinds(pendingRequests, id)
             THEN /\ pendingRequests' = AfterTimeout(pendingRequests, id)
                  /\ settleCalls' = Settle(settleCalls, k, TimeoutError(requests[k].method))
                  /\ lastOp' = Op("timeout", Seen(id), "rejected")
             ELSE /\ lastOp' = Op("timeout", Seen(id), "noop")
                  /\ UNCHANGED <<pendingRequests, settleCalls>>
  /\ UNCHANGED <<messageId, requests, processExited, stdinWritable, stdoutBuf>>

\* mutant: the loop ends after the first entry
ExitLoopFirst(map, calls, code) ==
  IF map = <<>>
    THEN [map |-> map, calls |-> calls]
    ELSE [map |-> MapDelete(map, Head(map).id),
          calls |-> Settle(calls, Head(map).req, ExitError(code))]

\* for (const [id, { reject }] of this.pendingRequests.entries()) { reject; delete }
RECURSIVE ExitLoop(_, _, _)
ExitLoop(map, calls, code) ==
  IF map = <<>>
    THEN [map |-> map, calls |-> calls]
    ELSE ExitLoop(MapDelete(map, Head(map).id),
                  Settle(calls, Head(map).req, ExitError(code)), code)

ExitCodes == {"1"}

\* process.on('exit', ...); the runtime has destroyed stdin when it emits 'exit'
OnExit(code) ==
  /\ ~processExited
  /\ processExited' = TRUE
  /\ stdinWritable' = FALSE
  /\ LET r == ExitLoop(pendingRequests, settleCalls, code)
     IN /\ pendingRequests' = r.map
        /\ settleCalls' = r.calls
  /\ lastOp' = Op("exit", Notification, code)
  /\ UNCHANGED <<messageId, requests, timersFired, stdoutBuf>>

(* ---------------------------- the environment ------------------------- *)

\* the stdin stream ends or fails while the process runs
StdinClose ==
  /\ stdinWritable
  /\ stdinWritable' = FALSE
  /\ UNCHANGED <<messageId, requests, pendingRequests, settleCalls, timersFired,
                 processExited, stdoutBuf, lastOp>>

\* the lines a server may write: a response to a request it has read, a
\* notification, the JSON literal null, or diagnostic text
ServerLines ==
  { JSONStringify(m) : m \in UNION { ResponsesFor(requests[k].id) : k \in DOMAIN requests } }
  \cup { JSONStringify(Notification), NullText, DiagText }

\* the lines the reader of the pipe is studied with: a success response to a
\* request the server has read, or diagnostic text
PipeLines ==
  { JSONStringify([id |-> requests[k].id, error |-> NoError, result |-> "R1"]) :
      k \in DOMAIN requests }
  \cup { DiagText }

LinesIn(text) == Cardinality({i \in DOMAIN text : text[i] = NL})

\* the server writes a line to its stdout
ServerWrite(line) ==
  /\ ~processExited
  /\ LinesIn(stdoutBuf) < MaxBufLines
  /\ stdoutBuf' = stdoutBuf \o line \o <<NL>>
  /\ UNCHANGED <<messageId, requests, pendingRequests, settleCalls, timersFired,
                 processExited, stdinWritable, lastOp>>

\* the server writes a line and the pipe delivers it alone, as one 'data' event
DeliverLine(line) ==
  /\ ~processExited
  /\ stdoutBuf = <<>>
  /\ OnStdoutData(line \o <<NL>>)
  /\ UNCHANGED <<messageId, requests, timersFired, processExited, stdinWritable,
                 stdoutBuf>>

(* ---------------------------- the negotiation ------------------------ *)

\* discoverServerMethods: the introspection methods it tries, in order
ProbeMethods == <<"rpc.discover", "system.listMethods", "rpc.ListMethods", "get_tools">>

\* tryDifferentMethods: methodVariations
ListMethods ==
  <<"tools/list", "tools.list", "mcp.listTools", "listTools", "get_tools",
    "getTools", "tools.get", "rpc.tools", "list_mcp_tools">>

\* tryDifferentToolCallMethods: the methods of methodVariations, the last one
\* being the name of the tool
CallMethods(tool) ==
  <<"tools/call", "mcp.callTool", "callTool", "tools.call", "invoke", "tool.invoke", tool>>

Tools == {"read_file"}

Candidates(n) == IF n.kind = "list" THEN ListMethods ELSE CallMethods(n.tool)

\* no settle call: the value of lastError before a candidate has failed (null)
NoCall == [kind |-> "none", type |-> "none", arg |-> "none"]

\* new Error('MCP server process is not available or not writable')
UnavailableError == Reject("unavailable", "none")

NegIdle ==
  [kind |-> "none", tool |-> "none", phase |-> "try", idx |-> 1, awaiting |-> 0,
   status |-> "idle", lastError |-> NoCall, result |-> "none", tried |-> <<>>, calls |-> 0,
   prevAccepted |-> "none"]

\* history: whether the call that just ended returned from the first candidate
\* or from a later one (the client itself keeps no such record)
Accepted(n) ==
  IF n.status = "returned" THEN (IF n.idx = 1 THEN "first" ELSE "later") ELSE "none"

\* the method of the request the call makes next
CurrentMethod(n) ==
  IF n.phase = "probe" THEN ProbeMethods[n.idx] ELSE Candidates(n)[n.idx]

\* the call has tried a method: whether a request went out, and (later) its success
Tried(n, method, sent) ==
  [n EXCEPT !.tried = Append(@, [method |-> method, phase |-> n.phase,
                                 sent |-> sent, ok |-> FALSE, value |-> "none"])]

MarkOk(n, value) ==
  [n EXCEPT !.tried[Len(n.tried)].ok = TRUE, !.tried[Len(n.tried)].value = value]

\* mutant: a success is recorded and the loop goes on with the next candidate
AfterSuccessContinue(n, value) ==
  IF n.phase = "probe"
    THEN [MarkOk(n, value) EXCEPT !.phase = "try", !.idx = 1]
    ELSE IF n.idx < Len(Candidates(n))
      THEN [MarkOk(n, value) EXCEPT !.result = value, !.idx = n.idx + 1]
      ELSE [MarkOk(n, value) EXCEPT !.result = value, !.status = "returned"]

\* the awaited request resolved: discoverServerMethods returns and the
\* candidates follow; a candidate's result is returned
AfterSuccess(n, value) ==
  IF n.phase = "probe"
    THEN [MarkOk(n, value) EXCEPT !.phase = "try", !.idx = 1]
    ELSE [MarkOk(n, value) EXCEPT !.status = "returned", !.result = value]

\* mutant: lastError keeps the first failure
RecordErrorFirst(n, error) == IF n.lastError = NoCall THEN error ELSE n.lastError

\* lastError = error
RecordError(n, error) == error

\* the awaited request was rejected, or sendStdioRequest threw: a probe's
\* error is logged; a candidate's error is kept in lastError and, after the
\* last candidate, thrown
AfterFailure(n, error) ==
  IF n.phase = "probe"
    THEN IF n.idx < Len(ProbeMethods)
           THEN [n EXCEPT !.idx = n.idx + 1]
           ELSE [n EXCEPT !.phase = "try", !.idx = 1]
    ELSE IF n.idx < Len(Candidates(n))
           THEN [n EXCEPT !.lastError = RecordError(n, error), !.idx = n.idx + 1]
           ELSE [n EXCEPT !.lastError = RecordError(n, error), !.status = "threw"]

\* tryDifferentMethods(retries, attempt) is called: discoverServerMethods first
StartList ==
  /\ neg.status # "running"
  /\ neg.calls < MaxCalls
  /\ neg' = [NegIdle EXCEPT !.kind = "list", !.phase = "probe", !.status = "running",
                            !.calls = neg.calls + 1, !.prevAccepted = Accepted(neg)]
  /\ UNCHANGED <<messageId, requests, pendingRequests, settleCalls, timersFired,
                 processExited, stdinWritable, stdoutBuf, lastOp>>

\* mutant: the call starts at the candidate the call before it returned from
FirstCandidateCached(n) == IF n.status = "returned" THEN n.idx ELSE 1

\* for (const ... of methodVariations): the loop starts at the first candidate
FirstCandidate(n) == 1

\* tryDifferentToolCallMethods(tool, args) is called
StartCall(tool) ==
  /\ neg.status # "running"
  /\ neg.calls < MaxCalls
  /\ neg' = [NegIdle EXCEPT !.kind = "call", !.tool = tool, !.status = "running",
                            !.idx = FirstCandidate(neg),
                            !.calls = neg.calls + 1, !.prevAccepted = Accepted(neg)]
  /\ UNCHANGED <<messageId, requests, pendingRequests, settleCalls, timersFired,
                 processExited, stdinWritable, stdoutBuf, lastOp>>

\* await this.sendStdioRequest(method, ...), up to the await: a throw of
\* sendStdioRequest is the failure of the method
NegSend(t) ==
  /\ neg.status = "running"
  /\ neg.awaiting = 0
  /\ SendStdioRequest(CurrentMethod(neg), t)
  /\ neg' = IF Unavailable
              THEN AfterFailure(Tried(neg, CurrentMethod(neg), FALSE), UnavailableError)
              ELSE [Tried(neg, CurrentMethod(neg), TRUE) EXCEPT !.awaiting = Len(requests) + 1]

\* the await ends: the promise of the awaited request has been settled. The
\* model then forgets the request (a settled promise the loop has read and
\* its timer, which finds nothing to do).
NegResume ==
  /\ neg.status = "running"
  /\ neg.awaiting \in DOMAIN settleCalls
  /\ settleCalls[neg.awaiting] # <<>>
  /\ LET outcome == settleCalls[neg.awaiting][1]
         n == [neg EXCEPT !.awaiting = 0]
     IN neg' = IF outcome.kind = "resolve"
                 THEN AfterSuccess(n, outcome.arg)
                 ELSE AfterFailure(n, outcome)
  /\ requests' = <<>>
  /\ settleCalls' = <<>>
  /\ timersFired' = 0
  /\ UNCHANGED <<messageId, pendingRequests, processExited, stdinWritable, stdoutBuf,
                 lastOp>>

(* ------------------------- the registry client ------------------------ *)

\* tool calls in one response of the LLM
MaxToolCalls == 2

\* the Ollama adapter is followed over MaxApiCalls requests to the API
MaxApiCalls == 4

\* explicit loadTools(retries, delay) calls use retries in 0..MaxRetries
MaxRetries == 2

\* loadTools(retries = 3, delay = 1000)
DefaultRetries == 3
DefaultDelay == 1000

Delays == {10, DefaultDelay}

ToolNames == {"read_file", "missing_tool"}

\* what the transport hands back for a discovery: response.data of GET /tools,
\* or the result tryDifferentMethods returns. It is null/undefined, or an
\* object with or without a tools field.
DiscoveryData ==
  { [isObject |-> FALSE, hasTools |-> FALSE, tools |-> {}],
    [isObject |-> TRUE,  hasTools |-> FALSE, tools |-> {}],
    [isObject |-> TRUE,  hasTools |-> TRUE,  tools |-> {}],
    [isObject |-> TRUE,  hasTools |-> TRUE,  tools |-> {"read_file"}] }

NoData == [isObject |-> FALSE, hasTools |-> FALSE, tools |-> {}]

\* the causes of a failure of the transport: axios rejects, or the negotiation
\* throws the error of its last candidate
TransportCauses ==
  {"Network error", "Request failed with status code 500", "E1", "Request timeout"}

\* the transport's answer to one request: it fails with a cause, or succeeds with data
Replies(datas) ==
  { [ok |-> FALSE, cause |-> c, data |-> NoData] : c \in TransportCauses }
  \cup { [ok |-> TRUE, cause |-> "none", data |-> d] : d \in datas }

\* the errors of the client: type, number of attempts, cause, tool
Err(type, attempts, cause, tool) ==
  [type |-> type, attempts |-> attempts, cause |-> cause, tool |-> tool]

NoErr == Err("none", 0, "none", "none")

\* the error a failed transport call throws
TransportErr(cause) == Err("transport", 0, cause, "none")

\* reading .tools of null or undefined
TypeErr == Err("TypeError", 0, "TypeError", "none")

\* mutant: the error reports the number of retries
AttemptsReportedRetries(retries) == retries

\* ${retries + 1} attempts
AttemptsReported(retries) == retries + 1

\* new Error(`Failed to load tools from MCP server after ${retries + 1} attempts: ${lastError}`)
LoadFailed(retries, lastError) ==
  Err("loadFailed", AttemptsReported(retries), lastError.cause, "none")

\* new Error(`Tool '${tool}' is not available on the MCP server`)
NotAvailable(tool) == Err("notAvailable", 0, "none", tool)

\* mutant: the error of the transport is thrown as it is
InvokeFailedBare(tool, error) == error

\* new Error(`Failed to invoke tool '${tool}': ${error}`)
InvokeFailed(tool, error) == Err("invokeFailed", 0, error.cause, tool)

OpIdle ==
  [kind |-> "none", phase |-> "idle", tool |-> "none",
   retries |-> 0, delay |-> 0, attempt |-> 0, lastError |-> NoErr,
   waits |-> <<>>, discoveries |-> 0, outcomes |-> <<>>, invokes |-> <<>>,
   value |-> {}, data |-> NoData, error |-> NoErr]

\* no call of the client is running: the callers await each call
OpFree == clientOp.phase \in {"idle", "returned", "threw"}

\* response.data.tools || [] (result.tools || []): throws on null/undefined
ReadTools(data) == IF data.hasTools THEN data.tools ELSE {}

\* the try block of an attempt runs to its end
AttemptSucceeds(reply) == reply.ok /\ reply.data.isObject

\* the error the catch block of the attempt receives
AttemptError(reply) == IF reply.ok THEN TypeErr ELSE TransportErr(reply.cause)

\* the transport is asked for the tool list: axios.get(`${baseUrl}/tools`) or
\* tryDifferentMethods(retries, attempt)
ContactDiscovery(o) == [o EXCEPT !.phase = "attempt", !.discoveries = @ + 1]

\* loadTools past the toolsLoaded test: the loop starts with attempt = 0
BeginAttempts(o, retries, delay) ==
  ContactDiscovery([o EXCEPT !.retries = retries, !.delay = delay, !.attempt = 0,
                             !.lastError = NoErr])

\* mutant: no existence check
ToolBlockedNever(tools, tool) == FALSE

\* mutant: the existence check blocks on an empty cache too
ToolBlockedAlways(tools, tool) == tool \notin tools

\* callTool: !toolExists && this.availableTools.length > 0
ToolBlocked(tools, tool) == tool \notin tools /\ tools # {}

\* invokeTool of the HTTP-only client: !toolExists
ToolMissing(tools, tool) == tool \notin tools

\* the existence check of the client
CheckFails(tools, tool) ==
  IF httpOnly THEN ToolMissing(tools, tool) ELSE ToolBlocked(tools, tool)

\* what follows the return of loadTools in the running call: loadTools itself
\* returns, getTools returns the cache, callTool checks the tool and asks the
\* transport to invoke it
AfterLoad(o, tools) ==
  CASE o.kind = "getTools" -> [o EXCEPT !.phase = "returned", !.value = tools]
    [] o.kind \in {"callTool", "invokeTool"} ->
         IF CheckFails(tools, o.tool)
           THEN [o EXCEPT !.phase = "threw", !.error = NotAvailable(o.tool)]
           ELSE [o EXCEPT !.phase = "invoke", !.invokes = Append(@, o.tool)]
    [] OTHER -> [o EXCEPT !.phase = "returned"]

\* mutant: the loaded flag is not looked at
AlreadyLoadedNever == FALSE

\* if (this.toolsLoaded) return
AlreadyLoaded == toolsLoaded

\* mutant: the error of loadTools is swallowed and the call goes on
RaiseSwallowed(o, error) == AfterLoad(o, {})

\* await this.loadTools() outside any try block: the error of loadTools is the
\* error of the call
Raise(o, error) == [o EXCEPT !.phase = "threw", !.error = error]

\* a call of the client starts: loadTools returns at once when the tools are loaded
StartOp(o, retries, delay) ==
  /\ OpFree
  /\ clientOp' = IF AlreadyLoaded THEN AfterLoad(o, availableTools)
                                ELSE BeginAttempts(o, retries, delay)
  /\ UNCHANGED <<httpOnly, transport, toolsLoaded, availableTools>>

\* loadTools(retries, delay)
LoadTools(retries, delay) ==
  StartOp([OpIdle EXCEPT !.kind = "loadTools"], retries, delay)

\* getTools()
GetTools ==
  StartOp([OpIdle EXCEPT !.kind = "getTools"], DefaultRetries, DefaultDelay)

\* callTool(tool, args)
CallTool(tool) ==
  StartOp([OpIdle EXCEPT !.kind = "callTool", !.tool = tool], DefaultRetries, DefaultDelay)

\* invokeTool(tool, args): return this.callTool(tool, args)
InvokeTool(tool) ==
  StartOp([OpIdle EXCEPT !.kind = "invokeTool", !.tool = tool], DefaultRetries, DefaultDelay)

\* mutant: the wait grows with the square of the attempt number
WaitTimeSquared(delay, attempt) == delay * (attempt + 1) * (attempt + 1)

\* const waitTime = delay * (attempt + 1)
WaitTime(delay, attempt) == delay * (attempt + 1)

\* mutant: the loop makes one attempt fewer
MoreAttemptsShort(attempt, retries) == attempt + 1 < retries

\* attempt < retries: this was not the last attempt
MoreAttempts(attempt, retries) == attempt < retries

\* the causes with which the transport of the client can fail
CausesOf(t) ==
  IF t = "http" THEN {"Network error", "Request failed with status code 500"}
                ELSE {"E1", "Request timeout"}

\* the answer of the transport to the discovery request of the running attempt
DiscoveryReply(reply) ==
  /\ clientOp.phase = "attempt"
  /\ ~reply.ok => reply.cause \in CausesOf(transport)
  /\ IF AttemptSucceeds(reply)
       THEN /\ availableTools' = ReadTools(reply.data)
            /\ toolsLoaded' = TRUE
            /\ clientOp' = AfterLoad([clientOp EXCEPT !.outcomes = Append(@, reply)],
                                     ReadTools(reply.data))
       ELSE LET o == [clientOp EXCEPT !.outcomes = Append(@, reply),
                                      !.lastError = AttemptError(reply)]
            IN IF MoreAttempts(o.attempt, o.retries)
                 THEN /\ clientOp' = [o EXCEPT !.phase = "wait",
                                       !.waits = Append(@, WaitTime(o.delay, o.attempt))]
                      /\ UNCHANGED <<toolsLoaded, availableTools>>
                 ELSE /\ toolsLoaded' = FALSE
                      /\ UNCHANGED availableTools
                      /\ clientOp' = Raise(o, LoadFailed(o.retries, o.lastError))
  /\ UNCHANGED <<httpOnly, transport>>

\* the backoff timer fires: the loop goes on with the next attempt
BackoffElapsed ==
  /\ clientOp.phase = "wait"
  /\ clientOp' = ContactDiscovery([clientOp EXCEPT !.attempt = @ + 1])
  /\ UNCHANGED <<httpOnly, transport, toolsLoaded, availableTools>>

\* what an invocation returns: response.data of POST /invoke, or the result of
\* tryDifferentToolCallMethods
InvokeData ==
  { NoData, [isObject |-> TRUE, hasTools |-> FALSE, tools |-> {}] }

\* the answer of the transport to the invocation: callTool returns the data,
\* or wraps the error
InvokeReply(reply) ==
  /\ clientOp.phase = "invoke"
  /\ ~reply.ok => reply.cause \in CausesOf(transport)
  /\ clientOp' = IF reply.ok
                   THEN [clientOp EXCEPT !.phase = "returned", !.data = reply.data]
                   ELSE [clientOp EXCEPT !.phase = "threw",
                           !.error = InvokeFailed(clientOp.tool, TransportErr(reply.cause))]
  /\ UNCHANGED <<httpOnly, transport, toolsLoaded, availableTools>>

(* ------------------------ the tool-call extractor --------------------- *)

\* The text of a model answer is a sequence of characters. The characters
\* the extractor's patterns look at stand one by one; a run of letters (a
\* word) and the three backquotes of a fence are one element each.
LB == "{"
RB == "}"
QT == "\""
COLON == ":"
COMMA == ","
SP == " "
LF == "\n"
FENCE == "fence"
JSONTAG == "json"
Digits == {"0", "1", "2"}

\* \s of a regular expression, and the white space trim() removes
IsSpace(c) == c \in {SP, LF}

RECURSIVE trimStart(_)
trimStart(s) == IF s # <<>> /\ IsSpace(Head(s)) THEN trimStart(Tail(s)) ELSE s

RECURSIVE trimEnd(_)
trimEnd(s) ==
  IF s # <<>> /\ IsSpace(s[Len(s)]) THEN trimEnd(SubSeq(s, 1, Len(s) - 1)) ELSE s

\* String.prototype.trim
trim(s) == trimEnd(trimStart(s))

startsWith(s, p) == Len(s) >= Len(p) /\ SubSeq(s, 1, Len(p)) = p

endsWith(s, p) == Len(s) >= Len(p) /\ SubSeq(s, Len(s) - Len(p) + 1, Len(s)) = p

\* the characters of s from position i on
From(s, i) == SubSeq(s, i, Len(s))

\* the first position from j on that holds no white space
RECURSIVE SpaceEnd(_, _)
SpaceEnd(s, j) == IF j <= Len(s) /\ IsSpace(s[j]) THEN SpaceEnd(s, j + 1) ELSE j

SetMin(S) == CHOOSE x \in S : \A y \in S : x <= y

SetMax(S) == CHOOSE x \in S : \A y \in S : x >= y

\* the positions from j on where a newline and a closing fence start
Closings(s, j) == {e \in j..(Len(s) - 1) : s[e] = LF /\ s[e + 1] = FENCE}

\* jsonPattern tried at position i: the fence, the optional tag, \s*\n (the
\* newlines of the white space that follows, as far as a closing fence comes
\* after them), then the shortest interior that ends before newline, fence
OpeningNewlines(s, i) ==
  IF s[i] # FENCE THEN {}
  ELSE LET j == IF i + 1 <= Len(s) /\ s[i + 1] = JSONTAG THEN i + 2 ELSE i + 1
       IN  {n \in j..(SpaceEnd(s, j) - 1) : s[n] = LF /\ Closings(s, n + 1) # {}}

\* the match at position i: match[0] is `whole`, match[1] is `inner`
jsonPattern(s, i) ==
  LET n == SetMax(OpeningNewlines(s, i))
      e == SetMin(Closings(s, n + 1))
  IN  [whole |-> SubSeq(s, i, e + 1), inner |-> SubSeq(s, n + 1, e - 1),
       last |-> e + 1]

\* text.matchAll(jsonPattern): the matches from position i on, left to right
RECURSIVE matchAll(_, _)
matchAll(s, i) ==
  IF i > Len(s) THEN <<>>
  ELSE IF OpeningNewlines(s, i) # {}
    THEN <<jsonPattern(s, i)>> \o matchAll(s, jsonPattern(s, i).last + 1)
  ELSE matchAll(s, i + 1)

\* s.replace(/pat/g, rep) for a pattern that is a fixed string
RECURSIVE replaceAll(_, _, _)
replaceAll(s, pat, rep) ==
  IF s = <<>> THEN <<>>
  ELSE IF startsWith(s, pat) THEN rep \o replaceAll(From(s, Len(pat) + 1), pat, rep)
  ELSE <<Head(s)>> \o replaceAll(Tail(s), pat, rep)

\* the position of the first quote from j on, 0 when there is none
RECURSIVE NextQuote(_, _)
NextQuote(s, j) ==
  IF j > Len(s) THEN 0 ELSE IF s[j] = QT THEN j ELSE NextQuote(s, j + 1)

\* the length of the match of the pattern of line 547 (two opening braces,
\* white space, a quoted key, a colon) at the start of s, 0 for none
DoubledKeyLen(s) ==
  IF ~startsWith(s, <<LB, LB>>) THEN 0
  ELSE LET j == SpaceEnd(s, 3)
       IN  IF j > Len(s) \/ s[j] # QT THEN 0
           ELSE LET k == NextQuote(s, j + 1)
                IN  IF k = 0 \/ k + 1 > Len(s) \/ s[k + 1] # COLON THEN 0 ELSE k + 1

\* line 547: the replace that keeps one brace and the quoted key
RECURSIVE replaceDoubledKey(_)
replaceDoubledKey(s) ==
  IF s = <<>> THEN <<>>
  ELSE LET m == DoubledKeyLen(s)
       IN  IF m > 0
             THEN <<LB>> \o SubSeq(s, SpaceEnd(s, 3), m) \o replaceDoubledKey(From(s, m + 1))
             ELSE <<Head(s)>> \o replaceDoubledKey(Tail(s))

\* jsonString.replace(/:\s*{{/g, ':{')
RECURSIVE replaceColonDoubled(_)
replaceColonDoubled(s) ==
  IF s = <<>> THEN <<>>
  ELSE LET j == SpaceEnd(s, 2)
       IN  IF Head(s) = COLON /\ startsWith(From(s, j), <<LB, LB>>)
             THEN <<COLON, LB>> \o replaceColonDoubled(From(s, j + 2))
             ELSE <<Head(s)>> \o replaceColonDoubled(Tail(s))

\* jsonString.replace(/}}(\s*})/g, '}$1')
RECURSIVE replaceDoubledBeforeBrace(_)
replaceDoubledBeforeBrace(s) ==
  IF s = <<>> THEN <<>>
  ELSE LET j == SpaceEnd(s, 3)
       IN  IF startsWith(s, <<RB, RB>>) /\ j <= Len(s) /\ s[j] = RB
             THEN SubSeq(s, 2, j) \o replaceDoubledBeforeBrace(From(s, j + 1))
             ELSE <<Head(s)>> \o replaceDoubledBeforeBrace(Tail(s))

\* (jsonString.match(/c/g) || []).length
Count(s, c) == Cardinality({i \in 1..Len(s) : s[i] = c})

\* 'c'.repeat(n)
repeat(c, n) == [i \in 1..n |-> c]

\* lines 524-531: a string that opens with a brace and does not close with one
\* gets a closing brace
CloseBrace(s) ==
  IF startsWith(s, <<LB>>) /\ ~endsWith(s, <<RB>>) THEN s \o <<RB>> ELSE s

\* lines 535-543: the outer doubled braces
StripOuter(s) ==
  IF startsWith(s, <<LB, LB>>) /\ endsWith(s, <<RB, RB>>) THEN SubSeq(s, 2, Len(s) - 1)
  ELSE IF startsWith(s, <<LB, LB>>) THEN From(s, 2)
  ELSE IF endsWith(s, <<RB, RB>>) THEN SubSeq(s, 1, Len(s) - 1)
  ELSE s

\* lines 547-554: the doubled braces inside
Undouble(s) ==
  replaceAll(
    replaceAll(
      replaceDoubledBeforeBrace(
        replaceAll(replaceColonDoubled(replaceDoubledKey(s)),
                   <<RB, RB, COMMA>>, <<RB, COMMA>>)),
      <<LB, LB>>, <<LB>>),
    <<RB, RB>>, <<RB>>)

\* lines 557-565: braces are counted wherever they stand and the missing ones
\* are added at the end or at the start
Balance(s) ==
  LET openBraces == Count(s, LB)
      closeBraces == Count(s, RB)
  IN  IF openBraces > closeBraces THEN s \o repeat(RB, openBraces - closeBraces)
      ELSE IF closeBraces > openBraces THEN repeat(LB, closeBraces - openBraces) \o s
      ELSE s

\* lines 524-565: the text JSON.parse is given for a block
Repair(inner) == Balance(Undouble(StripOuter(CloseBrace(trim(inner)))))

\* JSON values: an object is its members in declaration order, a string is
\* its characters, a number its digits
JObj(members) == [t |-> "object", kv |-> members, s |-> <<>>]
JStr(chars) == [t |-> "string", kv |-> <<>>, s |-> chars]
JNum(digits) == [t |-> "number", kv |-> <<>>, s |-> digits]
JNull == [t |-> "null", kv |-> <<>>, s |-> <<>>]
Undefined == [t |-> "undefined", kv |-> <<>>, s |-> <<>>]
Member(key, value) == [k |-> key, v |-> value]

\* obj[key]
Get(obj, key) ==
  IF \E i \in 1..Len(obj.kv) : obj.kv[i].k = key
    THEN obj.kv[CHOOSE i \in 1..Len(obj.kv) : obj.kv[i].k = key].v
    ELSE Undefined

\* obj[key] = value: an existing key keeps its place
Put(members, key, value) ==
  IF \E i \in 1..Len(members) : members[i].k = key
    THEN [i \in 1..Len(members) |->
            IF members[i].k = key THEN Member(key, value) ELSE members[i]]
    ELSE Append(members, Member(key, value))

\* delete obj[key]
Delete(members, key) == SelectSeq(members, LAMBDA m : m.k # key)

ParseFail == [ok |-> FALSE, v |-> Undefined, rest |-> <<>>]
Parsed(value, rest) == [ok |-> TRUE, v |-> value, rest |-> rest]

\* a string literal at the start of s: up to the next quote, on one line
ParseString(s) ==
  LET k == NextQuote(s, 2)
  IN  IF k = 0 \/ \E i \in 2..(k - 1) : s[i] = LF THEN ParseFail
      ELSE Parsed(JStr(SubSeq(s, 2, k - 1)), From(s, k + 1))

\* the first position from j on that holds no digit
RECURSIVE DigitsEnd(_, _)
DigitsEnd(s, j) == IF j <= Len(s) /\ s[j] \in Digits THEN DigitsEnd(s, j + 1) ELSE j

RECURSIVE ParseValue(_)
RECURSIVE ParseMembers(_, _)

\* the members of an object from a key on, up to the closing brace
ParseMembers(s, members) ==
  IF s = <<>> \/ Head(s) # QT THEN ParseFail
  ELSE LET key == ParseString(s)
           colon == trimStart(key.rest)
       IN  IF ~key.ok \/ colon = <<>> THEN ParseFail
           ELSE IF Head(colon) # COLON THEN ParseFail
           ELSE LET val == ParseValue(Tail(colon))
                    r == trimStart(val.rest)
                    more == Put(members, key.v.s, val.v)
                IN  IF ~val.ok \/ r = <<>> THEN ParseFail
                    ELSE IF Head(r) = RB THEN Parsed(JObj(more), Tail(r))
                    ELSE IF Head(r) = COMMA THEN ParseMembers(trimStart(Tail(r)), more)
                    ELSE ParseFail

\* one JSON value at the start of s, after white space
ParseValue(s0) ==
  LET s == trimStart(s0)
  IN  IF s = <<>> THEN ParseFail
      ELSE IF Head(s) = QT THEN ParseString(s)
      ELSE IF Head(s) \in Digits
        THEN Parsed(JNum(SubSeq(s, 1, DigitsEnd(s, 1) - 1)), From(s, DigitsEnd(s, 1)))
      ELSE IF Head(s) = "null" THEN Parsed(JNull, Tail(s))
      ELSE IF Head(s) = LB
        THEN LET r == trimStart(Tail(s))
             IN  IF r # <<>> /\ Head(r) = RB THEN Parsed(JObj(<<>>), Tail(r))
                 ELSE ParseMembers(r, <<>>)
      ELSE ParseFail

\* JSON.parse(jsonString): the text must be one JSON value and white space
JSONParseText(s) ==
  LET r == ParseValue(s)
  IN  IF r.ok /\ trimStart(r.rest) = <<>> THEN r ELSE ParseFail

\* a value in a condition
IsTruthy(v) ==
  CASE v.t = "object" -> TRUE
    [] v.t = "string" -> v.s # <<>>
    [] v.t = "number" -> \E i \in 1..Len(v.s) : v.s[i] # "0"
    [] OTHER -> FALSE

\* mutant: null does not have the type 'object'
IsObjectTypeNotNull(v) == v.t = "object"

\* typeof v === 'object'
IsObjectType(v) == v.t \in {"object", "null"}

\* v || {}
OrEmpty(v) == IF IsTruthy(v) THEN v ELSE JObj(<<>>)

\* { ...parameters }: the own members of an object; a string spreads into its
\* characters under their indexes, a number into nothing
Spread(v) ==
  CASE v.t = "object" -> v.kv
    [] v.t = "string" -> [i \in 1..Len(v.s) |-> Member(<<ToString(i - 1)>>, JStr(<<v.s[i]>>))]
    [] OTHER -> <<>>

\* mutant: no tool has an alias
parameterMappingsNone(toolName) == <<>>

\* parameterMappings[toolName]: the entries [fromParam, toParam] of the tool
parameterMappings(toolName) ==
  CASE toolName = JStr(<<"read_file">>) -> << <<"file_path", "path">> >>
    [] toolName = JStr(<<"read_multiple_files">>) -> << <<"file_paths", "paths">> >>
    [] toolName = JStr(<<"write_file">>) -> << <<"file_path", "path">> >>
    [] toolName = JStr(<<"search_files">>) -> << <<"directory_path", "path">> >>
    [] toolName = JStr(<<"list_directory">>) -> << <<"directory_path", "path">> >>
    [] OTHER -> <<>>

\* the loop of mapToolParameters over the entries of the mapping
RECURSIVE ApplyMapping(_, _, _)
ApplyMapping(mapping, parameters, result) ==
  IF mapping = <<>> THEN result
  ELSE LET fromParam == <<Head(mapping)[1]>>
           toParam == <<Head(mapping)[2]>>
           has == parameters.t = "object" /\ Get(parameters, fromParam) # Undefined
       IN  ApplyMapping(Tail(mapping), parameters,
             IF has
               THEN Delete(Put(result, toParam, Get(parameters, fromParam)), fromParam)
               ELSE result)

\* mapToolParameters(toolName, parameters)
mapToolParameters(toolName, parameters) ==
  JObj(ApplyMapping(parameterMappings(toolName), parameters, Spread(parameters)))

ToolCall(name, arguments) == [name |-> name, arguments |-> arguments]

\* lines 574-601: the calls of a parsed block. With a truthy `tool` the block
\* is one call; otherwise every key whose value has type 'object' is one
CallsOf(toolCallData) ==
  IF toolCallData.t = "object" /\ IsTruthy(Get(toolCallData, <<"tool">>))
    THEN << ToolCall(Get(toolCallData, <<"tool">>),
              mapToolParameters(Get(toolCallData, <<"tool">>),
                                OrEmpty(Get(toolCallData, <<"parameters">>)))) >>
  ELSE IF toolCallData.t = "object"
    THEN LET named == SelectSeq(toolCallData.kv, LAMBDA m : IsObjectType(m.v))
         IN  [i \in 1..Len(named) |->
                ToolCall(JStr(named[i].k),
                         mapToolParameters(JStr(named[i].k), OrEmpty(named[i].v)))]
  ELSE <<>>

\* the body of the try for one match: JSON.parse raises on text that is not
\* JSON, and reading `tool` of null raises
TryBlock(match) ==
  LET parsed == JSONParseText(Repair(match.inner))
  IN  IF ~parsed.ok \/ parsed.v.t = "null"
        THEN [raised |-> TRUE, calls |-> <<>>]
        ELSE [raised |-> FALSE, calls |-> CallsOf(parsed.v)]

\* s.replace(pat, ''): the first occurrence of pat is removed
RECURSIVE removeFirst(_, _)
removeFirst(s, pat) ==
  IF s = <<>> THEN <<>>
  ELSE IF startsWith(s, pat) THEN From(s, Len(pat) + 1)
  ELSE <<Head(s)>> \o removeFirst(Tail(s), pat)

\* mutant: the calls of a block are put before the calls found so far
pushFront(toolCalls, calls) == calls \o toolCalls

\* toolCalls.push(...) for each call of a block
push(toolCalls, calls) == toolCalls \o calls

\* mutant: the catch block raises again
CatchRethrows(raised) == raised

\* the catch block logs and goes on
Catch(raised) == FALSE

\* the loop over the matches
RECURSIVE ForMatches(_, _, _)
ForMatches(matches, toolCalls, modifiedContent) ==
  IF matches = <<>>
    THEN [threw |-> FALSE, toolCalls |-> toolCalls, modifiedContent |-> modifiedContent]
  ELSE LET block == TryBlock(Head(matches))
       IN  IF block.raised
             THEN IF Catch(block.raised)
                    THEN [threw |-> TRUE, toolCalls |-> toolCalls,
                          modifiedContent |-> modifiedContent]
                    ELSE ForMatches(Tail(matches), toolCalls, modifiedContent)
             ELSE ForMatches(Tail(matches), push(toolCalls, block.calls),
                             removeFirst(modifiedContent, Head(matches).whole))

NotParsed == [state |-> "none", content |-> <<>>, hasToolCalls |-> FALSE,
              toolCalls |-> <<>>]

\* mutant: the content left is not trimmed
ContentLeftAsIs(modifiedContent) == modifiedContent

\* line 616
ContentLeft(modifiedContent) == trim(modifiedContent)

\* parseToolCallsFromResponse(text): the LlmResponse, or the exception
parseToolCallsFromResponse(t) ==
  LET loop == ForMatches(matchAll(t, 1), <<>>, t)
  IN  IF loop.threw
        THEN [state |-> "threw", content |-> <<>>, hasToolCalls |-> FALSE,
              toolCalls |-> <<>>]
      ELSE IF loop.toolCalls # <<>>
        THEN [state |-> "returned", content |-> ContentLeft(loop.modifiedContent),
              hasToolCalls |-> TRUE, toolCalls |-> loop.toolCalls]
      ELSE [state |-> "returned", content |-> t, hasToolCalls |-> FALSE,
            toolCalls |-> <<>>]

\* callModelWithTools hands the text of the answer to the extractor
ParseToolCalls ==
  /\ response = NotParsed
  /\ response' = parseToolCallsFromResponse(answer)
  /\ UNCHANGED answer

(* ------------------------- the answers of a model --------------------- *)

\* JSON text of a value. `style` is "compact", "spaced" (a space after each
\* colon and comma) or "lines" (a member per line); with `doubled` every
\* brace of an object is written twice
RECURSIVE Render(_, _, _)
RECURSIVE RenderMembers(_, _, _)

RenderMembers(members, style, doubled) ==
  IF members = <<>> THEN <<>>
  ELSE <<QT>> \o Head(members).k \o <<QT, COLON>>
       \o (IF style = "compact" THEN <<>> ELSE <<SP>>)
       \o Render(Head(members).v, style, doubled)
       \o (IF Len(members) = 1 THEN <<>>
           ELSE <<COMMA>>
                \o (CASE style = "compact" -> <<>>
                      [] style = "spaced" -> <<SP>>
                      [] OTHER -> <<LF>>)
                \o RenderMembers(Tail(members), style, doubled))

Render(v, style, doubled) ==
  CASE v.t = "object" ->
         LET open == IF doubled THEN <<LB, LB>> ELSE <<LB>>
             close == IF doubled THEN <<RB, RB>> ELSE <<RB>>
             brk == IF style = "lines" /\ v.kv # <<>> THEN <<LF>> ELSE <<>>
         IN  open \o brk \o RenderMembers(v.kv, style, doubled) \o brk \o close
    [] v.t = "string" -> <<QT>> \o v.s \o <<QT>>
    [] v.t = "number" -> v.s
    [] OTHER -> <<"null">>

Styles == {"compact", "spaced", "lines"}

\* the leaf inside d objects, each under the key a, and a member c
\* after the inner object when `sibling`
RECURSIVE Chain(_, _, _)
Chain(d, leaf, sibling) ==
  IF d = 0 THEN leaf
  ELSE JObj(<<Member(<<"a">>, Chain(d - 1, leaf, FALSE))>>
            \o (IF sibling /\ d > 1 THEN <<Member(<<"c">>, JNum(<<"2">>))>> ELSE <<>>))

\* the values of a member: strings, with braces in them too, and numbers
Leaves ==
  { JStr(<<"v">>), JNum(<<"1">>), JStr(<<>>), JStr(<<RB>>), JStr(<<"x", LB, LB, "y", RB, RB>>) }

\* the arguments objects a call is written with
Arguments ==
  { Chain(d, leaf, sibling) : d \in 1..MaxDepth, leaf \in Leaves, sibling \in BOOLEAN }
  \cup { JObj(<<>>),
         JObj(<<Member(<<"a">>, JStr(<<"v">>)), Member(<<"b">>, JStr(<<"w">>))>>),
         JObj(<<Member(<<"a">>, Chain(1, JNum(<<"1">>), FALSE)),
                Member(<<"b">>, Chain(1, JStr(<<"v">>), FALSE))>>),
         JObj(<<Member(<<"file_path">>, JStr(<<"v">>))>>),
         JObj(<<Member(<<"file_path">>, JStr(<<"v">>)), Member(<<"b">>, JNum(<<"1">>))>>),
         JObj(<<Member(<<"file_path">>, JStr(<<"v">>)), Member(<<"path">>, JStr(<<"w">>))>>),
         JObj(<<Member(<<"directory_path">>, JStr(<<"v">>))>>) }

ToolIds == {"read_file", "list_directory", "test_tool"}

\* the standard shape: a tool member and a parameters member
StandardCall(tool, parameters) ==
  JObj(<<Member(<<"tool">>, JStr(<<tool>>)), Member(<<"parameters">>, parameters)>>)

\* the map shape: tool names as keys
MapCalls ==
  { JObj(<<Member(<<t1>>, p1)>>) : t1 \in ToolIds, p1 \in {JObj(<<>>), Chain(1, JStr(<<"v">>), FALSE)} }
  \cup { JObj(<<Member(<<"read_file">>, p1), Member(<<"note">>, x), Member(<<"test_tool">>, p2)>>) :
           p1 \in {Chain(2, JNum(<<"1">>), FALSE), JObj(<<Member(<<"file_path">>, JStr(<<"v">>))>>)},
           x \in {JStr(<<"v">>), JNull},
           p2 \in {JObj(<<>>), Chain(1, JStr(<<"v">>), FALSE)} }
  \cup { JObj(<<Member(<<"tool">>, JStr(<<>>)), Member(<<"test_tool">>, Chain(1, JNum(<<"1">>), FALSE))>>),
         JObj(<<Member(<<"note">>, JStr(<<"v">>))>>) }

\* the text between two fences: calls in each style, single and doubled braces,
\* and text that is not a call
Bodies ==
  { Render(StandardCall(t1, p), style, doubled) :
      t1 \in ToolIds, p \in Arguments, style \in Styles, doubled \in BOOLEAN }
  \cup { Render(m, style, doubled) : m \in MapCalls, style \in Styles, doubled \in BOOLEAN }
  \cup { <<"ls">>, <<"null">>, <<"1">>, <<QT, "v", QT>>,
         <<LB, QT, "tool", QT, COLON>>,
         <<LB, QT, "tool", QT, COLON, QT, "test_tool", QT, COMMA, QT, "parameters", QT, COLON, LB, QT, "a", QT, COLON, "1">>,
         <<QT, "tool", QT, COLON, QT, "test_tool", QT, RB>> }

\* a fenced block
Fenced(tag, body) == <<FENCE>> \o tag \o <<LF>> \o body \o <<LF, FENCE>>

Tags == {<<>>, <<JSONTAG>>}

\* the text before and after a block
Before == {<<>>, <<SP, "Text", LF>>}
After == {<<>>, <<LF, "Text", LF>>}

\* the blocks of an answer with several blocks
FewBodies ==
  { Render(StandardCall("read_file", Chain(1, JStr(<<"v">>), FALSE)), "spaced", FALSE),
    Render(StandardCall("test_tool", Chain(1, JNum(<<"1">>), FALSE)), "compact", TRUE),
    Render(JObj(<<Member(<<"list_directory">>, JObj(<<>>)), Member(<<"test_tool">>, JObj(<<>>))>>), "compact", FALSE),
    <<"ls">>,
    <<QT, "v", QT>> }

\* the answers with n blocks taken from FewBodies, text between them
RECURSIVE Several(_)
Several(n) ==
  IF n = 0 THEN {<<>>}
  ELSE { rest \o Fenced(<<>>, body) \o <<LF, "Text", LF>> :
           rest \in Several(n - 1), body \in FewBodies }

\* the answers of a model: without a block, with one block, with several
Answers ==
  { <<"Text">>, <<FENCE, LF, "ls", LF>>, <<>> }
  \cup { pre \o Fenced(tag, body) \o post :
           pre \in Before, tag \in Tags, body \in Bodies, post \in After }
  \cup UNION { Several(n) : n \in 2..MaxBlocks }

(* --------------------------- starting servers ------------------------ *)

\* the servers of the configuration; startMcpServers starts them side by side
ServerNames == {"filesystem", "git"}

\* startMcpServers has made the registry and stored the configurations
InitStart ==
  /\ servers = {}
  /\ serverConfigs = ServerNames
  /\ startPc = [n \in ServerNames |-> "idle"]
  /\ exited = [n \in ServerNames |-> FALSE]
  /\ retryCount = [n \in ServerNames |-> 0]

\* registry.registerServer(name, url, process)
registerServer(name) == servers \cup {name}

\* registry.unregisterServer(name), the part that acts on `servers`
unregisterServer(name) == servers \ {name}

\* registry.getClient(name) returns a client
getClient(name) == name \in servers

\* the keys of registry.getAllClients()
getAllClients == servers

\* serverProcess.killed: true only after kill() was called on the process,
\* which nothing does before the registration
Killed(name) == FALSE

\* startServer up to the first await: the process is spawned, the handlers
\* are installed, the one-second timer is started
StartServer(name) ==
  /\ startPc[name] = "idle"
  /\ startPc' = [startPc EXCEPT ![name] = "waiting"]
  /\ UNCHANGED <<servers, serverConfigs, exited, retryCount>>

\* the 'exit' handler of the process
OnServerExit(name) ==
  /\ startPc[name] # "idle"
  /\ ~exited[name]
  /\ exited' = [exited EXCEPT ![name] = TRUE]
  /\ servers' = unregisterServer(name)
  /\ serverConfigs' = serverConfigs \ {name}
  /\ UNCHANGED <<startPc, retryCount>>

\* startServer after the one-second wait: the check of `killed`, then the
\* registration
AfterWait(name) ==
  /\ startPc[name] = "waiting"
  /\ IF Killed(name)
       THEN startPc' = [startPc EXCEPT ![name] = "threw"] /\ UNCHANGED servers
       ELSE /\ startPc' = [startPc EXCEPT ![name] = "probing"]
            /\ servers' = registerServer(name)
  /\ UNCHANGED <<serverConfigs, exited, retryCount>>

\* one round of waitForServerReady: a process that runs may answer the health
\* check; without an answer the count goes up and the loop ends at maxRetries
HealthCheck(name, answered) ==
  /\ startPc[name] = "probing"
  /\ answered => ~exited[name]
  /\ IF answered
       THEN startPc' = [startPc EXCEPT ![name] = "done"] /\ UNCHANGED retryCount
       ELSE /\ retryCount' = [retryCount EXCEPT ![name] = @ + 1]
            /\ startPc' = [startPc EXCEPT ![name] =
                              IF retryCount[name] + 1 < MaxProbes THEN "probing" ELSE "done"]
  /\ UNCHANGED <<servers, serverConfigs, exited>>

(* ------------------------- overlapping loadTools ---------------------- *)

\* the callers whose loadTools calls on one client may overlap: startServer's
\* health check and the agent both reach loadTools through getTools
Callers == {1, 2}

NoLoad == [phase |-> "idle", retries |-> 0, attempt |-> 0]

InitOverlap == loadCalls = [c \in Callers |-> NoLoad]

\* caller c calls loadTools(retries): it returns at once when the tools are
\* loaded, otherwise the loop starts with attempt = 0
LoadToolsBy(c, retries) ==
  /\ loadCalls[c].phase = "idle"
  /\ loadCalls' = [loadCalls EXCEPT ![c] =
        IF AlreadyLoaded THEN [NoLoad EXCEPT !.phase = "returned"]
                         ELSE [phase |-> "attempt", retries |-> retries, attempt |-> 0]]
  /\ UNCHANGED <<toolsLoaded, availableTools>>

\* the transport answers the discovery request of caller c's running attempt
LoadReplyTo(c, reply) ==
  /\ loadCalls[c].phase = "attempt"
  /\ IF AttemptSucceeds(reply)
       THEN /\ availableTools' = ReadTools(reply.data)
            /\ toolsLoaded' = TRUE
            /\ loadCalls' = [loadCalls EXCEPT ![c].phase = "returned"]
       ELSE IF MoreAttempts(loadCalls[c].attempt, loadCalls[c].retries)
         THEN /\ loadCalls' = [loadCalls EXCEPT ![c].phase = "wait"]
              /\ UNCHANGED <<toolsLoaded, availableTools>>
         ELSE /\ toolsLoaded' = FALSE
              /\ UNCHANGED availableTools
              /\ loadCalls' = [loadCalls EXCEPT ![c].phase = "threw"]

\* the backoff timer of caller c fires: its loop goes on with the next attempt
BackoffElapsedOf(c) ==
  /\ loadCalls[c].phase = "wait"
  /\ loadCalls' = [loadCalls EXCEPT ![c].phase = "attempt", ![c].attempt = @ + 1]
  /\ UNCHANGED <<toolsLoaded, availableTools>>

\* the caller has its result and may call again
CallAgain(c) ==
  /\ loadCalls[c].phase \in {"returned", "threw"}
  /\ loadCalls' = [loadCalls EXCEPT ![c] = NoLoad]
  /\ UNCHANGED <<toolsLoaded, availableTools>>

(* --------------------------- the Ollama adapter ----------------------- *)

\* the number of tools handed to callModelWithTools
ToolCounts == 0..1

\* what a request to the API ends with: a 2xx answer, another status
\* (the adapter throws 'Ollama API error'), or fetch rejects
ApiOutcomes == {"ok", "status", "network"}

NoLlmCall == [fn |-> "none", phase |-> "idle", api |-> "none", error |-> "none"]

InitChat ==
  /\ useChat = TRUE
  /\ llmCall = NoLlmCall
  /\ apiLog = <<>>

\* no call of the adapter is running: the agent awaits each call
LlmFree == llmCall.phase \in {"idle", "returned", "rejected"}

\* the try blocks return the promise of the API call, they do not await it
\* (return this.callWithChatAPI(prompt, tools)): the rejection of that
\* promise settles the promise of the caller and never enters the catch
Awaited == FALSE

\* a request is sent to the API
Request(fn, api) == [fn |-> fn, phase |-> "request", api |-> api, error |-> "none"]

\* callModelWithTools(prompt, tools): useChat && tools.length > 0 chooses the API
CallModelWithTools(n) ==
  /\ LlmFree
  /\ Len(apiLog) < MaxApiCalls
  /\ llmCall' = Request("callModelWithTools",
                        IF useChat /\ n > 0 THEN "chat" ELSE "generate")
  /\ UNCHANGED <<useChat, apiLog>>

\* callModelWithToolResults(...): useChat alone chooses the API
CallModelWithToolResults ==
  /\ LlmFree
  /\ Len(apiLog) < MaxApiCalls
  /\ llmCall' = Request("callModelWithToolResults",
                        IF useChat THEN "chat" ELSE "generate")
  /\ UNCHANGED <<useChat, apiLog>>

\* the request of the running call ends. A failure of the first request is
\* caught only where the try block awaited it; the catch sets useChat = false
\* and returns the call of the generate API. A failure of that second call
\* rejects the call.
ApiReply(outcome) ==
  /\ llmCall.phase \in {"request", "fallback"}
  /\ apiLog' = Append(apiLog, [api |-> llmCall.api, outcome |-> outcome])
  /\ IF outcome = "ok"
       THEN /\ llmCall' = [llmCall EXCEPT !.phase = "returned"]
            /\ UNCHANGED useChat
     ELSE IF llmCall.phase = "request" /\ Awaited
       THEN /\ useChat' = FALSE
            /\ llmCall' = [llmCall EXCEPT !.phase = "fallback", !.api = "generate"]
     ELSE /\ llmCall' = [llmCall EXCEPT !.phase = "rejected", !.error = outcome]
          /\ UNCHANGED useChat

(* ------------------------------ the agent ----------------------------- *)

\* getAllClients().entries(): the registered clients in the order of registration
ClientOrder == <<"filesystem", "git">>

\* the tool lists a server may answer a discovery with
Offerings == {<<>>, <<"read_file">>, <<"git_status">>}

\* a discovery fails, or answers with a list
DiscoveryReplies ==
  {[ok |-> FALSE, list |-> <<>>]} \cup {[ok |-> TRUE, list |-> l] : l \in Offerings}

\* the names of the tools an LLM may call
CallNames == {"read_file", "git_status"}

\* response.toolCalls: absent or empty, or up to MaxToolCalls calls
RECURSIVE CallLists(_)
CallLists(n) ==
  IF n = 0 THEN {<<>>}
  ELSE CallLists(n - 1)
       \cup {Append(l, c) : l \in {x \in CallLists(n - 1) : Len(x) = n - 1}, c \in CallNames}

\* what the LLM step ends with: createLlmAdapter throws, callModelWithTools
\* rejects, or a response arrives
LlmOutcomes ==
  {[kind |-> k, calls |-> <<>>] : k \in {"adapterError", "llmError"}}
  \cup {[kind |-> "response", calls |-> l] : l \in CallLists(MaxToolCalls)}

\* a descriptor as the server sent it: it has no serverId field
Fresh(list) == [k \in DOMAIN list |-> [name |-> list[k], serverId |-> "undefined"]]

Names(tools) == [k \in DOMAIN tools |-> tools[k].name]

NotLoaded == [loaded |-> FALSE, tools |-> <<>>]

\* client.getTools(): the cached array itself when the tools are loaded,
\* otherwise loadTools runs; it fills the cache or throws
GetToolsOf(c, reply) ==
  IF c.loaded THEN [ok |-> TRUE, client |-> c]
  ELSE IF reply.ok THEN [ok |-> TRUE, client |-> [loaded |-> TRUE, tools |-> Fresh(reply.list)]]
  ELSE [ok |-> FALSE, client |-> c]

\* for (const tool of tools) { tool.serverId = serverName; ... }: the objects
\* are those of the array getTools returned
SetServerId(tools, serverName) ==
  [k \in DOMAIN tools |-> [tools[k] EXCEPT !.serverId = serverName]]

Event(e, server, tool, list, n) ==
  [e |-> e, server |-> server, tool |-> tool, list |-> list, n |-> n]

AtPrompt ==
  [pc |-> "prompt", i |-> 0, j |-> 0, allTools |-> <<>>, calls |-> <<>>,
   result |-> "none"]

InitAgent ==
  /\ clients = [s \in {ClientOrder[k] : k \in DOMAIN ClientOrder} |-> NotLoaded]
  /\ agent = AtPrompt
  /\ trace = <<>>

\* processUserInput(input), called from the prompt
ProcessUserInput ==
  /\ agent.pc = "prompt"
  /\ agent' = [AtPrompt EXCEPT !.pc = "collect", !.i = 1, !.result = "pending"]
  /\ trace' = <<>>
  /\ UNCHANGED clients

\* mutant: the catch block of processUserInput throws the error again
ProcessCatchRethrows(a) == [a EXCEPT !.pc = "prompt", !.result = "rejected"]

\* catch (error) { console.error('Error processing user input:', error) }
ProcessCatch(a) == [a EXCEPT !.pc = "prompt", !.result = "resolved"]

\* processUserInput runs to the end of its try block
ProcessReturn(a) == [a EXCEPT !.pc = "prompt", !.result = "resolved"]

\* the loop of collectMcpTools goes on with the next client, or returns allTools
CollectNext(a) ==
  IF a.i < Len(ClientOrder) THEN [a EXCEPT !.i = @ + 1] ELSE [a EXCEPT !.pc = "llm"]

\* mutant: the error of getTools leaves collectMcpTools
CollectCatchRethrows(a) == ProcessCatch(a)

\* catch (error) { console.error(`Error getting tools from ${serverName}`) }
CollectCatch(a) == CollectNext(a)

\* one turn of the loop of collectMcpTools
CollectMcpTools(reply) ==
  /\ agent.pc = "collect"
  /\ LET serverName == ClientOrder[agent.i]
         got == GetToolsOf(clients[serverName], reply)
         tools == SetServerId(got.client.tools, serverName)
     IN IF got.ok
          THEN /\ clients' = [clients EXCEPT ![serverName] = [got.client EXCEPT !.tools = tools]]
               /\ agent' = CollectNext([agent EXCEPT !.allTools = @ \o tools])
               /\ trace' = Append(trace, Event("getTools", serverName, "none", Names(tools), 0))
          ELSE /\ clients' = [clients EXCEPT ![serverName] = got.client]
               /\ agent' = CollectCatch(agent)
               /\ trace' = Append(trace, Event("getToolsFailed", serverName, "none", <<>>, 0))

\* handleToolCalls goes on after the execution of call j
AfterExecution(a) ==
  IF a.j < Len(a.calls) THEN [a EXCEPT !.pc = "exec", !.j = @ + 1, !.i = 1]
                        ELSE ProcessReturn(a)

\* the events of the end of call j and of the start of the call after it
EndAndStart(a) ==
  <<Event("end", "none", a.calls[a.j], <<>>, a.j)>>
  \o (IF a.j < Len(a.calls)
        THEN <<Event("start", "none", a.calls[a.j + 1], <<>>, a.j + 1)>> ELSE <<>>)

\* createLlmAdapter and llm.callModelWithTools(input, mcpTools, conversationId)
CallLlm(outcome) ==
  /\ agent.pc = "llm"
  /\ UNCHANGED clients
  /\ LET called == IF outcome.kind = "adapterError" THEN <<>>
                   ELSE <<Event("llm", "none", "none", agent.allTools, 0)>>
     IN IF outcome.kind # "response"
          THEN /\ agent' = ProcessCatch(agent)
               /\ trace' = trace \o called
                             \o <<Event("caught", "none", outcome.kind, <<>>, 0)>>
        ELSE IF outcome.calls = <<>>
          THEN /\ agent' = ProcessReturn(agent)
               /\ trace' = trace \o called
        ELSE /\ agent' = [agent EXCEPT !.pc = "exec", !.calls = outcome.calls,
                                       !.j = 1, !.i = 1]
             /\ trace' = trace \o called
                           \o <<Event("start", "none", outcome.calls[1], <<>>, 1)>>

\* the loop of executeToolCall goes on with the next client; after the last
\* one no server was found and the call is over
NextClientOf(a) ==
  IF a.i < Len(ClientOrder) THEN [a EXCEPT !.pc = "exec", !.i = @ + 1]
                            ELSE AfterExecution(a)

\* what the trace gets when the loop of executeToolCall goes on
NextClientEvents(a) == IF a.i < Len(ClientOrder) THEN <<>> ELSE EndAndStart(a)

\* mutant: every server is taken to have the tool
HasToolAlways(serverTools, toolName) == TRUE

\* serverTools.some((tool) => tool.name === toolName)
HasTool(serverTools, toolName) == \E k \in DOMAIN serverTools : serverTools[k].name = toolName

\* one turn of the loop of executeToolCall up to the callTool call
CheckServer(reply) ==
  /\ agent.pc = "exec"
  /\ LET serverName == ClientOrder[agent.i]
         toolName == agent.calls[agent.j]
         got == GetToolsOf(clients[serverName], reply)
     IN /\ clients' = [clients EXCEPT ![serverName] = got.client]
        /\ IF ~got.ok
             THEN /\ agent' = NextClientOf(agent)
                  /\ trace' = Append(trace, Event("getToolsFailed", serverName, "none", <<>>, agent.j))
                                \o NextClientEvents(agent)
           ELSE IF HasTool(got.client.tools, toolName)
             THEN /\ agent' = [agent EXCEPT !.pc = "call"]
                  /\ trace' = trace
                       \o <<Event("getTools", serverName, "none", Names(got.client.tools), agent.j),
                            Event("callTool", serverName, toolName, <<>>, agent.j)>>
           ELSE /\ agent' = NextClientOf(agent)
                /\ trace' = Append(trace, Event("getTools", serverName, "none",
                                                Names(got.client.tools), agent.j))
                              \o NextClientEvents(agent)

\* mutant: a failed callTool ends the handling of the tool calls
CallFailedStops(a) == ProcessCatch(a)

\* the inner catch of executeToolCall takes the error of callTool: the loop
\* goes on with the next client
CallFailed(a) == NextClientOf(a)

\* client.callTool(toolName, toolCall.arguments) settles
CallToolSettles(ok) ==
  /\ agent.pc = "call"
  /\ UNCHANGED clients
  /\ IF ok
       THEN /\ agent' = AfterExecution(agent)
            /\ trace' = Append(trace, Event("called", ClientOrder[agent.i], agent.calls[agent.j], <<>>, agent.j))
                          \o EndAndStart(agent)
       ELSE /\ agent' = CallFailed(agent)
            /\ trace' = Append(trace, Event("callFailed", ClientOrder[agent.i], agent.calls[agent.j], <<>>, agent.j))
                          \o (IF CallFailed(agent) = NextClientOf(agent)
                                THEN NextClientEvents(agent) ELSE <<>>)

InitOuter == InitOverlap /\ InitChat /\ InitAgent

(* --------------------------- the specifications ----------------------- *)

Methods == {"tools/list", "tools/call"}

Init ==
  /\ messageId = 1
  /\ requests = <<>>
  /\ pendingRequests = <<>>
  /\ settleCalls = <<>>
  /\ timersFired = 0
  /\ processExited = FALSE
  /\ stdinWritable = TRUE
  /\ stdoutBuf = <<>>
  /\ lastOp = Op("init", Notification, "none")
  /\ neg = NegIdle
  /\ httpOnly = FALSE
  /\ transport = "stdio"
  /\ toolsLoaded = FALSE
  /\ availableTools = {}
  /\ clientOp = OpIdle
  /\ answer = <<>>
  /\ response = NotParsed
  /\ InitStart
  /\ InitOuter

\* the correlator, each line of the server delivered alone
Next ==
  \/ \E method \in Methods, t \in ClockReadings :
        SendStdioRequest(method, t) /\ UNCHANGED <<neg, clientVars, extractVars, startVars, outerVars>>
  \/ \E line \in ServerLines : DeliverLine(line) /\ UNCHANGED <<neg, clientVars, extractVars, startVars, outerVars>>
  \/ OnTimeout /\ UNCHANGED <<neg, clientVars, extractVars, startVars, outerVars>>
  \/ \E code \in ExitCodes : OnExit(code) /\ UNCHANGED <<neg, clientVars, extractVars, startVars, outerVars>>
  \/ StdinClose /\ UNCHANGED <<neg, clientVars, extractVars, startVars, outerVars>>

Spec == Init /\ [][Next]_vars

\* the reader of the pipe, the stdout text cut into deliveries at any place
NextPipe ==
  \/ \E method \in Methods, t \in ClockReadings :
        SendStdioRequest(method, t) /\ UNCHANGED <<neg, clientVars, extractVars, startVars, outerVars>>
  \/ \E line \in PipeLines : ServerWrite(line) /\ UNCHANGED <<neg, clientVars, extractVars, startVars, outerVars>>
  \/ \E n \in 1..Len(stdoutBuf) : Deliver(n) /\ UNCHANGED <<neg, clientVars, extractVars, startVars, outerVars>>

SpecPipe == Init /\ [][NextPipe]_vars

\* the answers of the server to the requests that are pending: a result (with
\* no error field or a null one) or an error with a message
AnswerLines ==
  { JSONStringify(m) :
      m \in { r \in UNION { ResponsesFor(pendingRequests[i].id) : i \in DOMAIN pendingRequests } :
                r.error # [kind |-> "object", message |-> ""] } }

\* the negotiation over the correlator, one call at a time
NextNeg ==
  \/ StartList /\ UNCHANGED <<clientVars, extractVars, startVars, outerVars>>
  \/ \E tool \in Tools : StartCall(tool) /\ UNCHANGED <<clientVars, extractVars, startVars, outerVars>>
  \/ \E t \in ClockReadings : NegSend(t) /\ UNCHANGED <<clientVars, extractVars, startVars, outerVars>>
  \/ NegResume /\ UNCHANGED <<clientVars, extractVars, startVars, outerVars>>
  \/ \E line \in AnswerLines : DeliverLine(line) /\ UNCHANGED <<neg, clientVars, extractVars, startVars, outerVars>>
  \/ OnTimeout /\ UNCHANGED <<neg, clientVars, extractVars, startVars, outerVars>>
  \/ \E code \in ExitCodes : OnExit(code) /\ UNCHANGED <<neg, clientVars, extractVars, startVars, outerVars>>
  \/ StdinClose /\ UNCHANGED <<neg, clientVars, extractVars, startVars, outerVars>>

SpecNeg == Init /\ [][NextNeg]_vars

correlatorVars ==
  <<messageId, requests, pendingRequests, settleCalls, timersFired,
    processExited, stdinWritable, stdoutBuf, lastOp, neg>>

\* the client is constructed with a URL or with a child process
InitClient ==
  /\ messageId = 1
  /\ requests = <<>>
  /\ pendingRequests = <<>>
  /\ settleCalls = <<>>
  /\ timersFired = 0
  /\ processExited = FALSE
  /\ stdinWritable = TRUE
  /\ stdoutBuf = <<>>
  /\ lastOp = Op("init", Notification, "none")
  /\ neg = NegIdle
  /\ httpOnly \in BOOLEAN
  /\ transport \in {"http", "stdio"}
  /\ httpOnly => transport = "http"
  /\ toolsLoaded = FALSE
  /\ availableTools = {}
  /\ clientOp = OpIdle
  /\ answer = <<>>
  /\ response = NotParsed
  /\ InitStart
  /\ InitOuter

\* loadTools, getTools and callTool over a transport that answers each request
NextClient ==
  \/ \E retries \in 0..MaxRetries, delay \in Delays :
        LoadTools(retries, delay) /\ UNCHANGED <<correlatorVars, extractVars, startVars, outerVars>>
  \/ GetTools /\ UNCHANGED <<correlatorVars, extractVars, startVars, outerVars>>
  \/ \E tool \in ToolNames : CallTool(tool) /\ UNCHANGED <<correlatorVars, extractVars, startVars, outerVars>>
  \/ \E tool \in ToolNames : InvokeTool(tool) /\ UNCHANGED <<correlatorVars, extractVars, startVars, outerVars>>
  \/ \E reply \in Replies(DiscoveryData) : DiscoveryReply(reply) /\ UNCHANGED <<correlatorVars, extractVars, startVars, outerVars>>
  \/ BackoffElapsed /\ UNCHANGED <<correlatorVars, extractVars, startVars, outerVars>>
  \/ \E reply \in Replies(InvokeData) : InvokeReply(reply) /\ UNCHANGED <<correlatorVars, extractVars, startVars, outerVars>>

SpecClient == InitClient /\ [][NextClient]_vars

\* an answer of the model has arrived and is not yet parsed
InitExtract ==
  /\ messageId = 1
  /\ requests = <<>>
  /\ pendingRequests = <<>>
  /\ settleCalls = <<>>
  /\ timersFired = 0
  /\ processExited = FALSE
  /\ stdinWritable = TRUE
  /\ stdoutBuf = <<>>
  /\ lastOp = Op("init", Notification, "none")
  /\ neg = NegIdle
  /\ httpOnly = FALSE
  /\ transport = "stdio"
  /\ toolsLoaded = FALSE
  /\ availableTools = {}
  /\ clientOp = OpIdle
  /\ answer \in Answers
  /\ response = NotParsed
  /\ InitStart
  /\ InitOuter

\* the extractor run on one answer
NextExtract == ParseToolCalls /\ UNCHANGED <<correlatorVars, clientVars, startVars, outerVars>>

SpecExtract == InitExtract /\ [][NextExtract]_vars

\* startMcpServers: the servers are started side by side, and a process may
\* exit at any moment after it was spawned
NextStart ==
  \/ \E name \in ServerNames :
        StartServer(name) /\ UNCHANGED <<correlatorVars, clientVars, extractVars, outerVars>>
  \/ \E name \in ServerNames :
        OnServerExit(name) /\ UNCHANGED <<correlatorVars, clientVars, extractVars, outerVars>>
  \/ \E name \in ServerNames :
        AfterWait(name) /\ UNCHANGED <<correlatorVars, clientVars, extractVars, outerVars>>
  \/ \E name \in ServerNames, answered \in BOOLEAN :
        HealthCheck(name, answered) /\ UNCHANGED <<correlatorVars, clientVars, extractVars, outerVars>>

SpecStart == Init /\ [][NextStart]_vars

\* loadTools calls of several callers on one client, interleaved at their awaits
NextOverlap ==
  \/ \E c \in Callers, retries \in 0..MaxRetries :
        LoadToolsBy(c, retries) /\ UNCHANGED <<correlatorVars, httpOnly, transport, clientOp, extractVars, startVars, chatVars, agentVars>>
  \/ \E c \in Callers, reply \in Replies(DiscoveryData) :
        LoadReplyTo(c, reply) /\ UNCHANGED <<correlatorVars, httpOnly, transport, clientOp, extractVars, startVars, chatVars, agentVars>>
  \/ \E c \in Callers :
        BackoffElapsedOf(c) /\ UNCHANGED <<correlatorVars, httpOnly, transport, clientOp, extractVars, startVars, chatVars, agentVars>>
  \/ \E c \in Callers :
        CallAgain(c) /\ UNCHANGED <<correlatorVars, httpOnly, transport, clientOp, extractVars, startVars, chatVars, agentVars>>

SpecOverlap == Init /\ [][NextOverlap]_vars

\* the Ollama adapter, one call at a time
NextChat ==
  \/ \E n \in ToolCounts :
        CallModelWithTools(n) /\ UNCHANGED <<correlatorVars, clientVars, extractVars, startVars, overlapVars, agentVars>>
  \/ CallModelWithToolResults /\ UNCHANGED <<correlatorVars, clientVars, extractVars, startVars, overlapVars, agentVars>>
  \/ \E outcome \in ApiOutcomes :
        ApiReply(outcome) /\ UNCHANGED <<correlatorVars, clientVars, extractVars, startVars, overlapVars, agentVars>>

SpecChat == Init /\ [][NextChat]_vars

\* the agent: one input at a time, each await a step
NextAgent ==
  \/ ProcessUserInput /\ UNCHANGED <<correlatorVars, clientVars, extractVars, startVars, overlapVars, chatVars>>
  \/ \E reply \in DiscoveryReplies :
        CollectMcpTools(reply) /\ UNCHANGED <<correlatorVars, clientVars, extractVars, startVars, overlapVars, chatVars>>
  \/ \E outcome \in LlmOutcomes :
        CallLlm(outcome) /\ UNCHANGED <<correlatorVars, clientVars, extractVars, startVars, overlapVars, chatVars>>
  \/ \E reply \in DiscoveryReplies :
        CheckServer(reply) /\ UNCHANGED <<correlatorVars, clientVars, extractVars, startVars, overlapVars, chatVars>>
  \/ \E ok \in BOOLEAN :
        CallToolSettles(ok) /\ UNCHANGED <<correlatorVars, clientVars, extractVars, startVars, overlapVars, chatVars>>

SpecAgent == Init /\ [][NextAgent]_vars

(* ------------------------------ the claims ---------------------------- *)

\* the requests whose promise no call has settled
Unsettled == {k \in DOMAIN settleCalls : settleCalls[k] = <<>>}

\* the requests an entry of the map stands for
PendingReqs(map) == {map[i].req : i \in DOMAIN map}

\* a step in which the 30 s timer of request timersFired' fired
TimerStep == timersFired' = timersFired + 1

\* a step in which the process emitted 'exit'
ExitStep == ~processExited /\ processExited'

\* C1: a promise gets at most one resolve/reject call, and once it has been
\* settled no later response, timer or exit changes its calls or puts its id
\* back into the pending map.
C1_AtMostOnce ==
  [][\A k \in DOMAIN settleCalls' :
        /\ Len(settleCalls'[k]) <= 1
        /\ (k \in DOMAIN settleCalls /\ settleCalls[k] # <<>>)
             => /\ settleCalls'[k] = settleCalls[k]
                /\ ~MapHas(pendingRequests', requests[k].id)]_vars

\* a request settled by its response, whose timer then fired and whose
\* process then exited
C1_Witness ==
  \E k \in DOMAIN settleCalls :
     /\ settleCalls[k] = <<Resolve("R1")>>
     /\ timersFired >= k
     /\ processExited

\* C2: when the process exits, every request pending at that moment gets the
\* termination error (and nothing else), the other promises are left alone
\* and the pending map is empty afterwards.
C2_ExitRejectsAll ==
  [][ExitStep =>
       /\ pendingRequests' = <<>>
       /\ \A k \in DOMAIN settleCalls :
            IF k \in PendingReqs(pendingRequests)
              THEN \E code \in ExitCodes : settleCalls'[k] = <<ExitError(code)>>
              ELSE settleCalls'[k] = settleCalls[k]]_vars

\* two requests were pending at the exit and both got the termination error
C2_Witness ==
  /\ processExited
  /\ Cardinality({k \in DOMAIN settleCalls :
                    settleCalls[k] # <<>> /\ settleCalls[k][1].type = "exit"}) >= 2

\* C3: a timer that fires for a request nothing has settled rejects it with
\* the timeout error naming its method and removes its id from the map; from
\* then on the promise and the absence of its id are unchanged, and a
\* response with that id finds no match and changes nothing.
C3_Timeout ==
  [][/\ (TimerStep /\ timersFired' \in Unsettled) =>
          /\ settleCalls'[timersFired'] = <<TimeoutError(requests[timersFired'].method)>>
          /\ ~MapHas(pendingRequests', requests[timersFired'].id)
     /\ \A k \in DOMAIN settleCalls :
          (settleCalls[k] # <<>> /\ settleCalls[k][1].type = "timeout") =>
             /\ settleCalls'[k] = settleCalls[k]
             /\ ~MapHas(pendingRequests', requests[k].id)
             /\ (lastOp'.op = "data" /\ lastOp'.msg.id = requests[k].id) =>
                  /\ lastOp'.outcome = "noMatch"
                  /\ UNCHANGED <<pendingRequests, settleCalls>>]_vars

\* a request was rejected by its timer and a response with its id came later
C3_Witness ==
  \E k \in DOMAIN settleCalls :
     /\ settleCalls[k] = <<TimeoutError(requests[k].method)>>
     /\ lastOp = Op("data", Seen(requests[k].id), "noMatch")

\* C4: once the process has exited the pending map is empty, whatever is
\* called afterwards.
C4_NoEntryOutlivesProcess == processExited => pendingRequests = <<>>

\* sendStdioRequest was called after the exit
C4_Witness == processExited /\ lastOp.op = "send" /\ lastOp.outcome = "threw"

\* C5: a response settles the pending request whose id is the id of the
\* response, and no other request, whatever the order of arrival.
C5_MatchedById ==
  [][(lastOp'.op = "data" /\ settleCalls' # settleCalls) =>
       \A k \in DOMAIN settleCalls :
          IF requests[k].id = lastOp'.msg.id /\ k \in PendingReqs(pendingRequests)
            THEN settleCalls'[k] # settleCalls[k]
            ELSE settleCalls'[k] = settleCalls[k]]_vars

\* the second request was answered while the first was still pending
C5_Witness ==
  /\ Len(requests) >= 2
  /\ settleCalls[1] = <<>>
  /\ MapHas(pendingRequests, requests[1].id)
  /\ settleCalls[2] # <<>>
  /\ lastOp.op = "data" /\ lastOp.outcome = "settled" /\ lastOp.msg.id = requests[2].id

\* C6: the ids a client generates are pairwise different, the counter part
\* growing with every send; so are the ids of the entries of the pending map.
C6_UniqueIds ==
  /\ \A i, j \in DOMAIN requests :
        i < j => /\ requests[i].id # requests[j].id
                 /\ requests[i].id[2] < requests[j].id[2]
  /\ \A i, j \in DOMAIN pendingRequests :
        i # j => pendingRequests[i].id # pendingRequests[j].id

\* two requests sent at the same wall-clock reading are both pending
C6_Witness ==
  /\ Len(requests) >= 2
  /\ requests[1].id[1] = requests[2].id[1]
  /\ MapHas(pendingRequests, requests[1].id)
  /\ MapHas(pendingRequests, requests[2].id)

\* the request a matched response settled in this step
SettledBy(k) ==
  /\ lastOp'.op = "data" /\ lastOp'.outcome = "settled"
  /\ k \in DOMAIN settleCalls
  /\ settleCalls'[k] # settleCalls[k]

\* C9 as stated: a matched response that carries an error field rejects with
\* the message of the error, any other matched response resolves with its
\* result; the entry is removed.
C9_Original ==
  [][\A k \in DOMAIN settleCalls : SettledBy(k) =>
        /\ settleCalls'[k] =
             <<IF lastOp'.msg.error.kind # "absent"
                 THEN Reject("response", lastOp'.msg.error.message)
                 ELSE Resolve(lastOp'.msg.result)>>
        /\ ~MapHas(pendingRequests', lastOp'.msg.id)]_vars

\* C9 amended: a matched response whose error value is truthy rejects with
\* the message of the error, or with 'Unknown error' when that message is
\* empty or missing; a matched response without error field, or with a falsy
\* one (null), resolves with its result; the entry is removed.
C9_ResponseOutcome ==
  [][\A k \in DOMAIN settleCalls : SettledBy(k) =>
        /\ settleCalls'[k] =
             <<CASE lastOp'.msg.error.kind \in {"absent", "null"} ->
                      [kind |-> "resolve", type |-> "none", arg |-> lastOp'.msg.result]
                 [] lastOp'.msg.error.kind = "object"
                      /\ lastOp'.msg.error.message \in {"", "undefined"} ->
                      [kind |-> "reject", type |-> "response", arg |-> "Unknown error"]
                 [] OTHER ->
                      [kind |-> "reject", type |-> "response",
                       arg |-> lastOp'.msg.error.message]>>
        /\ ~MapHas(pendingRequests', lastOp'.msg.id)]_vars

\* a request was rejected with the message of an error response
C9_Witness ==
  /\ lastOp.op = "data" /\ lastOp.outcome = "settled"
  /\ lastOp.msg.error = [kind |-> "object", message |-> "E1"]
  /\ \E k \in DOMAIN settleCalls :
        /\ requests[k].id = lastOp.msg.id
        /\ settleCalls[k] = <<Reject("response", "E1")>>

\* a step in which stdout text was delivered to the 'data' handler, and the text
DataStep == Len(stdoutBuf') < Len(stdoutBuf)
Chunk == SubSeq(stdoutBuf, 1, Len(stdoutBuf) - Len(stdoutBuf'))

\* the text of exactly one JSON value, white space around it allowed
IsJSONText(text) ==
  LET black == {i \in DOMAIN text : text[i] # NL}
  IN /\ black # {}
     /\ LET lo == CHOOSE i \in black : \A j \in black : i <= j
            hi == CHOOSE i \in black : \A j \in black : j <= i
            value == SubSeq(text, lo, hi)
        IN \/ value = NullText
           \/ /\ Len(value) = 2
              /\ value[1].t = "H" /\ value[2].t = "T" /\ value[1].m = value[2].m

\* the response line of request k
ResponseLine(k) ==
  JSONStringify([id |-> requests[k].id, error |-> NoError, result |-> "R1"]) \o <<NL>>

\* C7: a delivery that is not the text of a JSON value is discarded: no
\* promise gets a call and the pending map is unchanged; the reader goes on,
\* a later delivery of the response line of a pending request settles it.
C7_GarbageDiscarded ==
  [][DataStep =>
       /\ ~IsJSONText(Chunk) =>
            /\ UNCHANGED <<pendingRequests, settleCalls>>
            /\ lastOp'.outcome \in {"caught", "empty"}
       /\ \A k \in DOMAIN requests :
            (Chunk = ResponseLine(k) /\ k \in PendingReqs(pendingRequests)) =>
               /\ settleCalls'[k] = <<Resolve("R1")>>
               /\ ~MapHas(pendingRequests', requests[k].id)]_vars

\* text that is no JSON was discarded while a request was pending, and the
\* response of that request is the next text in the pipe
C7_Witness ==
  /\ lastOp.op = "data" /\ lastOp.outcome = "caught"
  /\ \E k \in Unsettled :
        /\ MapHas(pendingRequests, requests[k].id)
        /\ stdoutBuf = ResponseLine(k)

\* C8 as stated: the reader works line by line, so every complete response
\* line inside a delivery settles the pending request it answers.
C8_LineByLine ==
  [][DataStep =>
       \A i \in 1..(Len(Chunk) - 2) : \A k \in PendingReqs(pendingRequests) :
          SubSeq(Chunk, i, i + 2) = ResponseLine(k) => settleCalls'[k] # <<>>]_vars

\* the requests of the call for candidates, and those of the introspection
TryPart == SelectSeq(neg.tried, LAMBDA e : e.phase = "try")
ProbePart == SelectSeq(neg.tried, LAMBDA e : e.phase = "probe")

MethodsOf(seq) == [i \in DOMAIN seq |-> seq[i].method]

\* C10 as stated: a negotiation that has returned sent, in that call, no
\* request for a candidate placed after the accepted one.
C10_Original ==
  neg.status = "returned" =>
     \A i \in DOMAIN neg.tried :
        neg.tried[i].sent =>
           ~ \E j \in (neg.idx + 1)..Len(Candidates(neg)) :
                 Candidates(neg)[j] = neg.tried[i].method

\* C10: the list negotiation first sends introspection requests (rpc.discover,
\* system.listMethods, rpc.ListMethods, get_tools, in that order, up to the
\* first that succeeds; their results are not used), the tool-call negotiation
\* sends none. After them the candidates are tried in their fixed order
\* (tools/list first, tools/call first); the call returns the result of the
\* first candidate that succeeds and tries no candidate after it.
C10_Negotiation ==
  /\ neg.tried = ProbePart \o TryPart
  /\ neg.kind = "call" => ProbePart = <<>>
  /\ Len(ProbePart) <= Len(ProbeMethods)
  /\ MethodsOf(ProbePart) = SubSeq(ProbeMethods, 1, Len(ProbePart))
  /\ \A i \in 1..(Len(ProbePart) - 1) : ~ProbePart[i].ok
  /\ neg.status # "idle" =>
       /\ Len(TryPart) <= Len(Candidates(neg))
       /\ MethodsOf(TryPart) = SubSeq(Candidates(neg), 1, Len(TryPart))
  /\ neg.status = "running" => \A i \in DOMAIN TryPart : ~TryPart[i].ok
  /\ neg.status = "returned" =>
       /\ Len(TryPart) = neg.idx
       /\ \A i \in 1..neg.idx : TryPart[i].sent /\ (TryPart[i].ok <=> i = neg.idx)
       /\ neg.result = TryPart[neg.idx].value

\* a list negotiation returned the result of listTools, the candidates before
\* it having failed; the introspection had sent get_tools
C10_Witness ==
  /\ neg.kind = "list" /\ neg.status = "returned"
  /\ Candidates(neg)[neg.idx] = "listTools"
  /\ \E i \in DOMAIN ProbePart : ProbePart[i].method = "get_tools" /\ ProbePart[i].sent

\* the step in which the running negotiation throws
NegThrows == neg.status = "running" /\ neg'.status = "threw"

\* C11: a negotiation throws only after every candidate has been tried once,
\* in order, and the error it throws is the failure of the last candidate:
\* the rejection of the request sent for it, or the error of the send.
C11_LastError ==
  [][NegThrows =>
       /\ MethodsOf(TryPart') = Candidates(neg)
       /\ \A i \in DOMAIN TryPart' : ~TryPart'[i].ok
       /\ IF neg.awaiting # 0
            THEN /\ requests[neg.awaiting].method = Candidates(neg)[Len(Candidates(neg))]
                 /\ neg'.lastError = settleCalls[neg.awaiting][1]
            ELSE neg'.lastError = UnavailableError]_vars

\* a list negotiation threw the timeout of its last candidate, after requests
\* for its candidates had been sent
C11_Witness ==
  /\ neg.status = "threw" /\ neg.kind = "list"
  /\ neg.lastError = TimeoutError("list_mcp_tools")
  /\ Len(TryPart) = Len(ListMethods)
  /\ TryPart[1].sent

\* C12: a negotiation call starts with nothing kept from the call before it
\* (first candidate, no error, no result), and the first candidate request it
\* makes is for the first candidate, whichever candidate was accepted before.
C12_NotCached ==
  [][/\ neg'.calls # neg.calls =>
          /\ neg'.idx = 1 /\ neg'.tried = <<>>
          /\ neg'.lastError = NoCall /\ neg'.result = "none"
     /\ (TryPart = <<>> /\ TryPart' # <<>>) =>
          TryPart'[1].method = Candidates(neg')[1]]_vars

\* the call before returned the result of a later candidate, and this call
\* has sent its request for the first candidate
C12_Witness ==
  /\ neg.prevAccepted = "later"
  /\ neg.kind = "call"
  /\ TryPart # <<>> /\ TryPart[1].sent /\ TryPart[1].method = "tools/call"

\* the discovery attempts of the running call that have ended, and whether
\* the loop of loadTools has ended
Attempts == Len(clientOp.outcomes)
LoadEnded == Attempts > 0 /\ clientOp.phase \notin {"attempt", "wait"}
LoadThrew == clientOp.phase = "threw" /\ clientOp.error.type = "loadFailed"

FailedAttempts ==
  Cardinality({i \in DOMAIN clientOp.outcomes : ~AttemptSucceeds(clientOp.outcomes[i])})

LoadCallStarts ==
  /\ OpFree
  /\ clientOp' # clientOp
  /\ clientOp'.kind \in {"loadTools", "getTools"}

\* C16: once loaded, the flag and the cache stay as they are, and a loadTools
\* or getTools call returns at once without asking the transport.
C16_LoadedNoOp ==
  [][toolsLoaded =>
       /\ toolsLoaded' /\ availableTools' = availableTools
       /\ LoadCallStarts =>
            /\ clientOp'.phase = "returned"
            /\ clientOp'.discoveries = 0 /\ clientOp'.invokes = <<>>
            /\ clientOp'.kind = "getTools" => clientOp'.value = availableTools]_vars

\* getTools returned the cache of an earlier load without asking the transport
C16_Witness ==
  /\ toolsLoaded /\ availableTools = {"read_file"}
  /\ clientOp.kind = "getTools" /\ clientOp.phase = "returned"
  /\ clientOp.discoveries = 0 /\ clientOp.value = {"read_file"}

\* the running call is callTool, or invokeTool which delegates to it, and it
\* is past loadTools
IsCall == clientOp.kind \in {"callTool", "invokeTool"}
PastLoad == clientOp.phase \in {"invoke", "returned", "threw"} /\ ~LoadThrew
Rejected == clientOp.phase = "threw" /\ clientOp.error.type = "notAvailable"

\* C17: every invocation that reaches the transport names a tool of the cache,
\* unless the cache is empty; a call for a name that is missing from a
\* non-empty cache is rejected with the tool-not-available error and nothing
\* is sent for it.
C17_ExistenceCheck ==
  /\ \A i \in DOMAIN clientOp.invokes :
        clientOp.invokes[i] \in availableTools \/ availableTools = {}
  /\ (IsCall /\ PastLoad /\ availableTools # {} /\ clientOp.tool \notin availableTools) =>
        /\ Rejected
        /\ clientOp.error.tool = clientOp.tool
        /\ clientOp.invokes = <<>>

\* callTool("missing_tool") on a loaded client whose cache holds read_file
\* was rejected; the transport was not asked anything
C17_Witness ==
  /\ clientOp.kind = "callTool" /\ clientOp.tool = "missing_tool"
  /\ availableTools = {"read_file"}
  /\ Rejected
  /\ clientOp.discoveries = 0 /\ clientOp.invokes = <<>>

\* the step in which callTool gets past loadTools: it starts on a loaded
\* client, or its discovery succeeds
CheckStep ==
  /\ clientOp.phase # "invoke"
  /\ clientOp' # clientOp
  /\ clientOp'.kind \in {"callTool", "invokeTool"}
  /\ clientOp'.phase \in {"invoke", "returned", "threw"}
  /\ ~LoadThrew'

C19_Original ==
  (clientOp.kind = "invokeTool" /\ PastLoad /\ clientOp.tool \notin availableTools) =>
     /\ Rejected
     /\ clientOp.invokes = <<>>

\* C20: when the transport fails the invocation of callTool, the call throws
\* the invocation-failure error that names the tool and carries the cause;
\* the loaded flag and the cache are unchanged.
C20_InvokeFailure ==
  [][(clientOp.phase = "invoke" /\ clientOp'.phase = "threw") =>
        /\ clientOp'.error.type = "invokeFailed"
        /\ clientOp'.error.tool = clientOp.tool
        /\ clientOp'.error.cause \in CausesOf(transport)
        /\ clientOp'.invokes = <<clientOp.tool>>
        /\ UNCHANGED <<toolsLoaded, availableTools>>]_vars

\* callTool("read_file") on the pipe failed with the timeout of the last
\* negotiation candidate
C20_Witness ==
  /\ clientOp.kind = "callTool" /\ clientOp.tool = "read_file"
  /\ transport = "stdio" /\ toolsLoaded /\ availableTools = {"read_file"}
  /\ clientOp.phase = "threw"
  /\ clientOp.error = Err("invokeFailed", 0, "Request timeout", "read_file")

\* C21: getTools returns the cache, and callTool asks the transport to invoke,
\* only when loaded is true; when the discovery is exhausted the call throws
\* the discovery error, getTools returns no list and callTool sends nothing.
C21_LoadedFirst ==
  /\ (clientOp.kind = "getTools" /\ clientOp.phase = "returned") =>
        toolsLoaded /\ clientOp.value = availableTools
  /\ clientOp.invokes # <<>> => toolsLoaded
  /\ (Attempts > 0 /\ clientOp.phase \in {"returned", "threw", "invoke"}
        /\ ~AttemptSucceeds(clientOp.outcomes[Attempts])) =>
        /\ clientOp.phase = "threw"
        /\ clientOp.error = LoadFailed(clientOp.retries, AttemptError(clientOp.outcomes[Attempts]))
        /\ clientOp.value = {} /\ clientOp.invokes = <<>>
        /\ ~toolsLoaded

\* callTool("read_file") on a client without tools threw the discovery error
\* after four attempts and sent no invocation
C21_Witness ==
  /\ clientOp.kind = "callTool" /\ clientOp.tool = "read_file"
  /\ LoadThrew /\ clientOp.error.attempts = 4
  /\ clientOp.discoveries = 4 /\ clientOp.invokes = <<>>
  /\ ~toolsLoaded

\* C22 as stated: an HTTP discovery attempt fails, and does not set loaded,
\* when the request fails (status, network) and also when the body of the
\* response has no tools list.
C22_MalformedBodyFails ==
  [][(transport = "http" /\ clientOp.phase = "attempt"
        /\ Len(clientOp'.outcomes) = Attempts + 1
        /\ LET reply == clientOp'.outcomes[Attempts + 1]
           IN ~reply.ok \/ ~reply.data.hasTools) =>
       /\ ~toolsLoaded'
       /\ clientOp'.phase \in {"wait", "threw"}]_vars

\* the fenced blocks of the answer, and what the text of a block denotes as
\* it was written
BlocksOf(t) == matchAll(t, 1)
Written(match) == JSONParseText(trim(match.inner))

\* the block is well-formed JSON of the standard shape: a tool name and an
\* arguments object
StandardShape(match) ==
  /\ Written(match).ok
  /\ Written(match).v.t = "object"
  /\ Get(Written(match).v, <<"tool">>).t = "string"
  /\ Get(Written(match).v, <<"tool">>).s # <<>>
  /\ Get(Written(match).v, <<"parameters">>).t = "object"

\* the call a block of the standard shape is written as, its keys renamed by
\* the alias table
WrittenCall(match) ==
  ToolCall(Get(Written(match).v, <<"tool">>),
           mapToolParameters(Get(Written(match).v, <<"tool">>),
                             Get(Written(match).v, <<"parameters">>)))

Returned == response.state = "returned"

\* C23: an answer whose fenced blocks are all well-formed JSON of the standard
\* shape yields, for each block, exactly one ToolCall with the name and the
\* arguments the block was written with, nested objects and strings that
\* contain braces included: the repair steps do not alter well-formed text
C23_WellFormedUnaltered ==
  (/\ Returned
   /\ \A i \in 1..Len(BlocksOf(answer)) : StandardShape(BlocksOf(answer)[i]))
    => response.toolCalls =
         [i \in 1..Len(BlocksOf(answer)) |-> WrittenCall(BlocksOf(answer)[i])]

\* the text with every brace outside a string literal written once (a pair of
\* equal braces becomes one), and with every such brace written twice
RECURSIVE SingleBraces(_, _)
SingleBraces(s, inString) ==
  IF s = <<>> THEN <<>>
  ELSE IF Head(s) = QT THEN <<QT>> \o SingleBraces(Tail(s), ~inString)
  ELSE IF ~inString /\ (startsWith(s, <<LB, LB>>) \/ startsWith(s, <<RB, RB>>))
    THEN <<Head(s)>> \o SingleBraces(From(s, 3), inString)
  ELSE <<Head(s)>> \o SingleBraces(Tail(s), inString)

RECURSIVE DoubleBraces(_, _)
DoubleBraces(s, inString) ==
  IF s = <<>> THEN <<>>
  ELSE IF Head(s) = QT THEN <<QT>> \o DoubleBraces(Tail(s), ~inString)
  ELSE IF ~inString /\ Head(s) \in {LB, RB}
    THEN <<Head(s), Head(s)>> \o DoubleBraces(Tail(s), inString)
  ELSE <<Head(s)>> \o DoubleBraces(Tail(s), inString)

\* the answer is written with doubled braces: every brace outside a string
\* stands twice, and its blocks are standard-shape calls once the braces are
\* written singly
DoubledForm(t) ==
  /\ t # SingleBraces(t, FALSE)
  /\ t = DoubleBraces(SingleBraces(t, FALSE), FALSE)
  /\ \A i \in 1..Len(BlocksOf(SingleBraces(t, FALSE))) :
        StandardShape(BlocksOf(SingleBraces(t, FALSE))[i])

\* C24: a call written with doubled braces is extracted to the same ToolCalls
\* as the same answer with the braces written singly
C24_DoubledSameAsSingle ==
  (Returned /\ DoubledForm(answer))
    => response.toolCalls =
         parseToolCallsFromResponse(SingleBraces(answer, FALSE)).toolCalls

\* the value JSON.parse returned for a block, after the repair
Data(match) == JSONParseText(Repair(match.inner))

\* the answer has one block, which parsed to an object without a `tool` key
MapShape ==
  /\ Returned
  /\ Len(BlocksOf(answer)) = 1
  /\ Data(BlocksOf(answer)[1]).ok
  /\ Data(BlocksOf(answer)[1]).v.t = "object"
  /\ Get(Data(BlocksOf(answer)[1]).v, <<"tool">>) = Undefined

\* the members of the parsed object whose value has one of the given types,
\* in declaration order, each as a call: the key is the name, the value (an
\* empty object for null) the arguments before the alias renaming
CallPerKey(types) ==
  LET named == SelectSeq(Data(BlocksOf(answer)[1]).v.kv, LAMBDA m : m.v.t \in types)
  IN  [i \in 1..Len(named) |->
         ToolCall(JStr(named[i].k),
                  mapToolParameters(JStr(named[i].k),
                    IF named[i].v.t = "null" THEN JObj(<<>>) ELSE named[i].v))]

\* C25 as stated: a parsed object without a `tool` key gives one ToolCall per
\* key whose value is an object, the key as the name, in declaration order
C25_Original == MapShape => response.toolCalls = CallPerKey({"object"})

\* C25: a parsed object without a `tool` key gives one ToolCall per key whose
\* value is an object or null, the key as the name and null read as empty
\* arguments, in declaration order; keys with other values give no call
C25_MapShape == MapShape => response.toolCalls = CallPerKey({"object", "null"})

\* a map-shape block with two tools and between them a key whose value is a
\* string gave the two calls in the order of the keys
C25_Witness ==
  /\ MapShape
  /\ Len(Data(BlocksOf(answer)[1]).v.kv) = 3
  /\ Data(BlocksOf(answer)[1]).v.kv[2].v.t = "string"
  /\ Len(response.toolCalls) = 2
  /\ response.toolCalls[1].name = JStr(Data(BlocksOf(answer)[1]).v.kv[1].k)
  /\ response.toolCalls[2].name = JStr(Data(BlocksOf(answer)[1]).v.kv[3].k)

\* the calls a block gives: none when its text does not parse after the repair
BlockCalls(match) ==
  IF Data(match).ok /\ Data(match).v.t # "null" THEN CallsOf(Data(match).v) ELSE <<>>

\* the calls of the blocks from the first to the last, in the order of the text
RECURSIVE InTextOrder(_)
InTextOrder(matches) ==
  IF matches = <<>> THEN <<>>
  ELSE BlockCalls(Head(matches)) \o InTextOrder(Tail(matches))

\* C26: the ToolCalls are in the order in which their blocks stand in the
\* text, also when a block between them is skipped
C26_TextOrder == Returned => response.toolCalls = InTextOrder(BlocksOf(answer))

\* three blocks, the middle one skipped, the calls of the first and the third
\* returned in that order and with different names
C26_Witness ==
  /\ Returned
  /\ Len(BlocksOf(answer)) = 3
  /\ ~Data(BlocksOf(answer)[2]).ok
  /\ Len(response.toolCalls) = 2
  /\ Len(BlockCalls(BlocksOf(answer)[1])) = 1
  /\ Len(BlockCalls(BlocksOf(answer)[3])) = 1
  /\ response.toolCalls[1] = BlockCalls(BlocksOf(answer)[1])[1]
  /\ response.toolCalls[2] = BlockCalls(BlocksOf(answer)[3])[1]
  /\ response.toolCalls[1].name # response.toolCalls[2].name

\* the try of a block raised: its text is not JSON after the repair, or is null
Skipped(match) == ~Data(match).ok \/ Data(match).v.t = "null"

\* pat stands somewhere in s
Contains(s, pat) ==
  \E i \in 1..(Len(s) - Len(pat) + 1) : SubSeq(s, i, i + Len(pat) - 1) = pat

\* C27: a block that still fails to parse after the repair is skipped without
\* raising: the extractor never throws, a skipped block gives no ToolCall and
\* its text, fences included, stays in the content, and the calls of the other
\* blocks are returned
C27_SkippedNotRaised ==
  /\ response.state # "threw"
  /\ Returned =>
       /\ \A i \in 1..Len(BlocksOf(answer)) :
            Skipped(BlocksOf(answer)[i]) =>
              Contains(response.content, BlocksOf(answer)[i].whole)
       /\ response.toolCalls =
            InTextOrder(SelectSeq(BlocksOf(answer), LAMBDA m : ~Skipped(m)))

\* an answer with a block that was skipped and a block that gave a call: the
\* call is returned and the text of the skipped block is in the content
C27_Witness ==
  /\ Returned
  /\ response.hasToolCalls
  /\ \E i \in 1..Len(BlocksOf(answer)) :
        /\ Skipped(BlocksOf(answer)[i])
        /\ Contains(response.content, BlocksOf(answer)[i].whole)
        /\ ~Contains(response.content, <<QT, "tool", QT>>)

\* the calls of a parsed block as they were written, before any renaming
WrittenCalls(data) ==
  IF data.t = "object" /\ IsTruthy(Get(data, <<"tool">>))
    THEN << ToolCall(Get(data, <<"tool">>), OrEmpty(Get(data, <<"parameters">>))) >>
  ELSE IF data.t = "object"
    THEN LET named == SelectSeq(data.kv, LAMBDA m : m.v.t \in {"object", "null"})
         IN  [i \in 1..Len(named) |-> ToolCall(JStr(named[i].k), OrEmpty(named[i].v))]
  ELSE <<>>

\* the alias table: per tool, the pairs of a listed key and its correct key
Aliases(name) ==
  IF name \in {JStr(<<"read_file">>), JStr(<<"write_file">>)}
    THEN { <<"file_path", "path">> }
  ELSE IF name = JStr(<<"read_multiple_files">>) THEN { <<"file_paths", "paths">> }
  ELSE IF name \in {JStr(<<"search_files">>), JStr(<<"list_directory">>)}
    THEN { <<"directory_path", "path">> }
  ELSE {}

Keys(obj) == { obj.kv[i].k : i \in 1..Len(obj.kv) }

\* the key under which a written key is returned
NewKey(name, key) ==
  IF \E a \in Aliases(name) : key = <<a[1]>>
    THEN <<(CHOOSE a \in Aliases(name) : key = <<a[1]>>)[2]>>
    ELSE key

\* the answer has one block, which parsed, and every call written in it has
\* an object as arguments
OneBlockOfCalls ==
  /\ Returned
  /\ Len(BlocksOf(answer)) = 1
  /\ ~Skipped(BlocksOf(answer)[1])
  /\ \A i \in 1..Len(WrittenCalls(Data(BlocksOf(answer)[1]).v)) :
        WrittenCalls(Data(BlocksOf(answer)[1]).v)[i].arguments.t = "object"

\* C28 as stated: in every recovered call each listed key is renamed with its
\* value kept, and unlisted keys and tools without an entry are unchanged
C28_Original ==
  OneBlockOfCalls =>
    LET written == WrittenCalls(Data(BlocksOf(answer)[1]).v)
    IN  /\ Len(response.toolCalls) = Len(written)
        /\ \A i \in 1..Len(written) :
             LET name == written[i].name
                 was == written[i].arguments
                 now == response.toolCalls[i].arguments
             IN  /\ response.toolCalls[i].name = name
                 /\ Keys(now) = { NewKey(name, k) : k \in Keys(was) }
                 /\ \A k \in Keys(was) : Get(now, NewKey(name, k)) = Get(was, k)

\* C28: in every recovered call, of the standard and of the map shape, each
\* listed key is renamed with its value kept; an unlisted key is unchanged,
\* unless it is the correct key of a listed key that is present too: then it
\* holds the value of the listed key; tools without an entry are unchanged
C28_Aliases ==
  OneBlockOfCalls =>
    LET written == WrittenCalls(Data(BlocksOf(answer)[1]).v)
    IN  /\ Len(response.toolCalls) = Len(written)
        /\ \A i \in 1..Len(written) :
             LET name == written[i].name
                 was == written[i].arguments
                 now == response.toolCalls[i].arguments
                 listed == { k \in Keys(was) : NewKey(name, k) # k }
             IN  /\ response.toolCalls[i].name = name
                 /\ Keys(now) = { NewKey(name, k) : k \in Keys(was) }
                 /\ \A k \in listed : Get(now, NewKey(name, k)) = Get(was, k)
                 /\ \A k \in Keys(was) \ listed :
                      (\A l \in listed : NewKey(name, l) # k) => Get(now, k) = Get(was, k)

\* read_file was called with file_path and another key: path holds the value
\* of file_path, file_path is gone and the other key is as it was
C28_Witness ==
  /\ OneBlockOfCalls
  /\ Len(response.toolCalls) = 1
  /\ response.toolCalls[1].name = JStr(<<"read_file">>)
  /\ Keys(WrittenCalls(Data(BlocksOf(answer)[1]).v)[1].arguments) = {<<"file_path">>, <<"b">>}
  /\ Keys(response.toolCalls[1].arguments) = {<<"path">>, <<"b">>}
  /\ Get(response.toolCalls[1].arguments, <<"path">>) = JStr(<<"v">>)

\* the positions of the text that the given blocks cover, fences included
Covered(blocks) ==
  { i \in 1..Len(answer) :
      \E k \in 1..Len(blocks) :
        blocks[k].last - Len(blocks[k].whole) < i /\ i <= blocks[k].last }

\* the answer without the positions in `gone`, every other character in place
RECURSIVE Without(_, _)
Without(gone, i) ==
  IF i > Len(answer) THEN <<>>
  ELSE (IF i \in gone THEN <<>> ELSE <<answer[i]>>) \o Without(gone, i + 1)

\* the blocks a call was recovered from, and the blocks that parsed
WithCalls == SelectSeq(BlocksOf(answer), LAMBDA m : BlockCalls(m) # <<>>)
ParsedBlocks == SelectSeq(BlocksOf(answer), LAMBDA m : ~Skipped(m))

\* C29 as stated: the content returned is the answer with the full text of
\* every block a call was recovered from removed and every other character
\* left untouched
C29_Original == Returned => response.content = Without(Covered(WithCalls), 1)

\* C29: when a call was recovered, the content returned is the answer with
\* the full text, fences included, of every block that parsed removed, and
\* then trimmed of the white space at its two ends; every other character is
\* left untouched. When no call was recovered the content is the answer as
\* it was
C29_Residual ==
  Returned =>
    response.content =
      IF response.hasToolCalls
        THEN trim(Without(Covered(ParsedBlocks), 1))
        ELSE answer

\* a call was recovered from an answer with text around the block: the
\* content is the text around it, without the white space at its ends
C29_Witness ==
  /\ Returned
  /\ response.hasToolCalls
  /\ response.content # <<>>
  /\ ~Contains(response.content, <<FENCE>>)
  /\ response.content # Without(Covered(ParsedBlocks), 1)

\* C30: once startServer has finished for a server whose process has exited,
\* the registry holds no connection for it (getClient, getAllClients),
\* whatever the moment of the exit relative to the registration
C30_NoConnectionAfterExit ==
  \A name \in ServerNames :
    (startPc[name] = "done" /\ exited[name])
      => (~getClient(name) /\ name \notin getAllClients)

\* C36: a sendStdioRequest call on a client whose process is gone or whose
\* stdin is not writable throws at once and changes nothing: the pending map,
\* the requests written, the timers armed and the id counter stay as they
\* were; no request is registered in such a state.
C36_UnavailableChangesNothing ==
  [][/\ lastOp' = Op("send", Notification, "threw") =>
          UNCHANGED <<messageId, requests, pendingRequests, settleCalls,
                      timersFired, stdoutBuf>>
     /\ (processExited \/ ~stdinWritable) =>
          /\ lastOp' # lastOp => lastOp'.outcome # "registered"
          /\ UNCHANGED <<messageId, requests>>]_vars

\* a request was pending when the stream closed, and a later call threw
C36_Witness ==
  /\ ~stdinWritable
  /\ pendingRequests # <<>>
  /\ lastOp = Op("send", Notification, "threw")

\* the 30 s timer of request k is armed: setTimeout was called for it and its
\* callback has not run; the client keeps no handle of the timer and never
\* calls clearTimeout
Armed(k) == k \in DOMAIN requests /\ k > timersFired

\* request k was settled by its matching response
SettledByResponse(k) ==
  /\ settleCalls[k] # <<>>
  /\ settleCalls[k][1].type \in {"none", "response"}

\* C35: once the matching response of a request has been handled, no timer
\* remains armed for that request.
C35_TimerCancelled ==
  \A k \in DOMAIN requests : SettledByResponse(k) => ~Armed(k)

\* the correlator under the one assumption that an armed timer fires: the
\* event loop runs the callback of setTimeout once its delay has passed
TimerFires == OnTimeout /\ UNCHANGED <<neg, clientVars, extractVars, startVars, outerVars>>

\* the correlator with a server that answers the pending requests (with a
\* result or an error), writes other text, stays silent or exits
NextTimers ==
  \/ \E method \in Methods, t \in ClockReadings :
        SendStdioRequest(method, t) /\ UNCHANGED <<neg, clientVars, extractVars, startVars, outerVars>>
  \/ \E line \in AnswerLines \cup {DiagText} :
        DeliverLine(line) /\ UNCHANGED <<neg, clientVars, extractVars, startVars, outerVars>>
  \/ TimerFires
  \/ \E code \in ExitCodes : OnExit(code) /\ UNCHANGED <<neg, clientVars, extractVars, startVars, outerVars>>
  \/ StdinClose /\ UNCHANGED <<neg, clientVars, extractVars, startVars, outerVars>>

SpecTimers == Init /\ [][NextTimers]_vars /\ WF_vars(TimerFires)

\* request k is settled and its id is no longer in the pending map
Finished(k) ==
  /\ k \in DOMAIN requests
  /\ settleCalls[k] # <<>>
  /\ ~MapHas(pendingRequests, requests[k].id)

\* C34: every request that was registered is eventually settled and removed
\* from the pending map, whether the server answers, stays silent or exits,
\* given only that armed timers fire.
C34_EventuallySettled ==
  \A k \in 1..MaxReq : (k \in DOMAIN requests) ~> Finished(k)

\* the server stayed silent and alive, and the timer finished the request
C34_Witness ==
  /\ ~processExited
  /\ stdoutBuf = <<>>
  /\ \E k \in DOMAIN requests :
        /\ Finished(k)
        /\ settleCalls[k] = <<TimeoutError(requests[k].method)>>
        /\ lastOp = Op("timeout", Seen(requests[k].id), "rejected")

\* C37: once a loadTools call has set the loaded flag, the flag stays set in
\* every later state, also when a loadTools call that began before the
\* success exhausts its retries afterwards.
C37_LoadedMonotonic == [][toolsLoaded => toolsLoaded']_vars

\* the request of the chat API made by callModelWithTools fails in this step
ChatFails ==
  /\ llmCall.fn = "callModelWithTools"
  /\ llmCall.phase = "request" /\ llmCall.api = "chat"
  /\ apiLog' # apiLog
  /\ apiLog'[Len(apiLog')].outcome # "ok"

\* C39: when the chat request of callModelWithTools fails, the adapter sets
\* useChat = false and goes on with the generate API; the call is not
\* rejected with the error of the chat request.
C39_FallsBackToGenerate ==
  [][ChatFails =>
       /\ useChat' = FALSE
       /\ llmCall'.phase # "rejected"
       /\ llmCall'.api = "generate"]_vars

\* the events of the trace that satisfy a test
Events(Test(_)) == {p \in DOMAIN trace : Test(trace[p])}

IsCallTool(ev) == ev.e = "callTool"

\* C31: a callTool call is issued only on a client whose getTools list, read
\* just before in the same execution, has the name of the tool; the cache of
\* that client has the name, and a tool that no registered client has is
\* never called.
C31_RoutedToOwner ==
  /\ \A p \in Events(IsCallTool) :
        /\ p > 1
        /\ trace[p - 1].e = "getTools"
        /\ trace[p - 1].server = trace[p].server
        /\ trace[p - 1].n = trace[p].n
        /\ \E k \in DOMAIN trace[p - 1].list : trace[p - 1].list[k] = trace[p].tool
        /\ \E k \in DOMAIN clients[trace[p].server].tools :
              clients[trace[p].server].tools[k].name = trace[p].tool
  /\ \A toolName \in CallNames :
        (\A s \in DOMAIN clients : ~HasTool(clients[s].tools, toolName))
          => \A p \in Events(IsCallTool) : trace[p].tool # toolName

\* one call went to the second client, the first not having the tool, and a
\* call of a tool that no client has ended with no callTool
C31_Witness ==
  /\ agent.pc = "prompt" /\ Len(agent.calls) = 2
  /\ clients["filesystem"].loaded /\ clients["git"].loaded
  /\ ~HasTool(clients["filesystem"].tools, agent.calls[1])
  /\ \E p \in Events(IsCallTool) : trace[p].server = "git" /\ trace[p].n = 1
  /\ \A s \in DOMAIN clients : ~HasTool(clients[s].tools, agent.calls[2])
  /\ \E p \in DOMAIN trace : trace[p].e = "end" /\ trace[p].n = 2

\* the turns of collectMcpTools in the trace
IsCollected(ev) == ev.e \in {"getTools", "getToolsFailed"} /\ ev.n = 0

IsLlm(ev) == ev.e = "llm"

\* the names the servers that answered listed, in the order of the answers
RECURSIVE Answered(_)
Answered(events) ==
  IF events = <<>> THEN <<>>
  ELSE (IF Head(events).e = "getTools" /\ Head(events).n = 0 THEN Head(events).list ELSE <<>>)
       \o Answered(Tail(events))

\* C32: once the collection of the tools is over, every registered client
\* has been queried, whether or not a getTools call failed, and the LLM is
\* called with the tools of the servers that answered, each tagged with its
\* server, and no others.
C32_CollectionGoesOn ==
  (agent.result # "none" /\ agent.pc # "collect") =>
     /\ \A k \in DOMAIN ClientOrder :
           \E p \in Events(IsCollected) : trace[p].server = ClientOrder[k]
     /\ \A p \in Events(IsLlm) :
           /\ Names(trace[p].list) = Answered(trace)
           /\ \A k \in DOMAIN trace[p].list :
                 \E q \in Events(IsCollected) :
                    /\ trace[q].e = "getTools"
                    /\ trace[q].server = trace[p].list[k].serverId
                    /\ \E m \in DOMAIN trace[q].list : trace[q].list[m] = trace[p].list[k].name

\* the first server failed, the second answered with a tool, and the LLM was called
C32_Witness ==
  /\ \E p \in Events(IsCollected) :
        trace[p].e = "getToolsFailed" /\ trace[p].server = "filesystem"
  /\ \E p \in Events(IsCollected) :
        trace[p].e = "getTools" /\ trace[p].server = "git" /\ trace[p].list # <<>>
  /\ \E p \in Events(IsLlm) : Len(trace[p].list) = 1

\* C33: a descriptor in the cache of a client that has discovered its tools
\* is not changed in any field by a later operation of the client or the
\* agent.
C33_DescriptorsImmutable ==
  [][\A s \in DOMAIN clients :
        clients[s].loaded => clients'[s].tools = clients[s].tools]_vars

IsMark(ev) == ev.e \in {"start", "end"}

\* the starts and ends of the executions, in the order they happened
Marks == SelectSeq(trace, IsMark)

IsStep(ev) == ev.e \in {"getTools", "getToolsFailed", "callTool", "called", "callFailed"} /\ ev.n > 0

\* the number of events of a kind among the first p events of the trace
CountBefore(p, kind) == Cardinality({q \in 1..p : trace[q].e = kind})

\* C38: the tool calls of a response are executed one at a time and in list
\* order: execution i + 1 starts after execution i has ended, every step of
\* execution i lies between its start and its end, and when the handling is
\* over every call of the list has been executed, failures included.
C38_OneAtATimeInOrder ==
  /\ \A p \in DOMAIN Marks :
        /\ Marks[p].e = (IF p % 2 = 1 THEN "start" ELSE "end")
        /\ Marks[p].n = (p + 1) \div 2
        /\ Marks[p].n \in DOMAIN agent.calls
        /\ Marks[p].tool = agent.calls[Marks[p].n]
  /\ \A p \in Events(IsStep) :
        /\ CountBefore(p, "start") = trace[p].n
        /\ CountBefore(p, "end") = trace[p].n - 1
  /\ (agent.pc = "prompt" /\ agent.result # "none") => Len(Marks) = 2 * Len(agent.calls)

\* the first call failed on a client that has the tool, and the second call
\* was executed after it
C38_Witness ==
  /\ agent.pc = "prompt" /\ Len(agent.calls) = 2
  /\ \E p \in DOMAIN trace : trace[p].e = "callFailed" /\ trace[p].n = 1
  /\ \E p \in DOMAIN trace : trace[p].e = "called" /\ trace[p].n = 2

\* C40: processUserInput never rejects: when it is over, after a failure of
\* the collection, of the adapter, of the LLM or of a tool call, its promise
\* is resolved and the loop is at the prompt.
C40_NeverRejects ==
  /\ agent.result # "rejected"
  /\ agent.result = "resolved" <=> (agent.pc = "prompt" /\ trace # <<>>)

IsCaught(ev) == ev.e = "caught"

\* the LLM call failed after a getTools failure, and the prompt was reached
C40_Witness ==
  /\ agent.pc = "prompt" /\ agent.result = "resolved"
  /\ \E p \in Events(IsCaught) : trace[p].tool = "llmError"
  /\ \E p \in Events(IsCollected) : trace[p].e = "getToolsFailed"

====
